---- MODULE Spec2Model ----
(***************************************************************************)
(* Model of belasting.py: the Dutch 2023 income-tax formulas (box 1 rate,  *)
(* algemene heffingskorting, arbeidskorting, total tax, net income,        *)
(* effective and marginal rate).                                           *)
(*                                                                         *)
(* Numbers.  The Python code works on floats.  Here an income is an        *)
(* integer number of sub-units (1/Denom of a currency unit), a rate is an  *)
(* integer number of 1/RateScale, and an amount is an exact decimal kept   *)
(* as a pair <<w, f>> standing for w + f/FracScale with 0 <= f < FracScale *)
(* (w is the floor, so the pair is unique and works for negative amounts). *)
(* The pair keeps every intermediate value inside 32-bit integers.         *)
(* Binary rounding of the floats (relative error about 1e-16) is not       *)
(* modelled; every product of a rate and an income is exact in this        *)
(* representation.                                                         *)
(***************************************************************************)
EXTENDS Integers, FiniteSets, Sequences, TLC

(* ---------------- bounds of the model ---------------- *)
\* sub-units per currency unit (resolution of non-whole incomes)
Denom == 10
\* every whole income 0 .. MaxInkomen (currency units) is sampled
MaxInkomen == 150000
\* every sub-unit income within Venster units of a threshold is sampled
Venster == 3
\* negative incomes -MaxNegatief .. -1 (whole units) are sampled
MaxNegatief == 3

(* ---------------- Constanten (belasting.py 19-40) ---------------- *)
\* number of rate units in 1: rates are written with five decimals
RateScale == 100000

BOX1_TARIEF == 73031
BOX1_SCHIJF_1_PERC == 36930
BOX1_SCHIJF_2_PERC == 49500

AH_TARIEF_1 == 22661
AH_TARIEF_2 == 73031
AH_KORTING == 3070
AH_PERC == 6095

AK_TARIEF_1 == 10741
AK_TARIEF_2 == 23201
AK_TARIEF_3 == 37691
AK_TARIEF_4 == 115295
AK_SCHIJF_1_PERC == 8231
AK_SCHIJF_2_PERC == 29861
AK_SCHIJF_3_PERC == 3085
AK_SCHIJF_4_PERC == 6510
AK_KORTING_1 == 884
AK_KORTING_2 == 4605
AK_KORTING_3 == 5052

(* ---------------- exact decimal arithmetic ---------------- *)
FracScale == RateScale * Denom

\* a whole number of currency units as an income in sub-units
Eenheden(n) == n * Denom

Norm(w, f) == <<w + (f \div FracScale), f % FracScale>>

Zero == <<0, 0>>

\* a whole number of currency units as an amount
Bedrag(n) == <<n, 0>>

\* an income (sub-units) as an amount
VanInkomen(x) == <<x \div Denom, (x % Denom) * RateScale>>

Plus(a, b) == Norm(a[1] + b[1], a[2] + b[2])

Minus(a, b) == Norm(a[1] - b[1], a[2] - b[2])

Less(a, b) == a[1] < b[1] \/ (a[1] = b[1] /\ a[2] < b[2])

Leq(a, b) == a = b \/ Less(a, b)

\* Python max(a, b) and min(a, b) on amounts
MaxA(a, b) == IF Less(a, b) THEN b ELSE a

\* Python max(a, b) and min(a, b) on incomes
MaxI(a, b) == IF a < b THEN b ELSE a

MinI(a, b) == IF b < a THEN b ELSE a

\* rate * income: r in 1/RateScale, x in sub-units, exact; the whole part of
\* the income is multiplied in two limbs of Chunk units to stay in 32 bits
Times(r, x) ==
    LET Chunk == 1000
        q  == x \div Denom
        s  == x % Denom
        qh == q \div Chunk
        ql == q % Chunk
        per == RateScale \div Chunk
    IN  Norm(((r * qh) \div per) + ((r * ql) \div RateScale),
             ((((r * qh) % per) * Chunk) + ((r * ql) % RateScale)) * Denom
                 + (r * s))

(* ---------------- Functies (belasting.py 47-120) ---------------- *)
\* _min1: one currency unit less
min1(getal) == getal - Eenheden(1)

\* variant: the second bracket's rate applied to the whole income above the
\* threshold instead of to the excess only
box1_tarief_hele_inkomen(inkomen) ==
    LET schijf1_bedrag == MinI(inkomen, Eenheden(BOX1_TARIEF))
        schijf2_bedrag == IF inkomen > Eenheden(BOX1_TARIEF) THEN inkomen ELSE 0
    IN  Plus(Times(BOX1_SCHIJF_1_PERC, schijf1_bedrag),
             Times(BOX1_SCHIJF_2_PERC, schijf2_bedrag))

box1_tarief(inkomen) ==
    LET schijf1_bedrag == MinI(inkomen, Eenheden(BOX1_TARIEF))
        schijf2_bedrag == MaxI(inkomen - Eenheden(BOX1_TARIEF), 0)
    IN  Plus(Times(BOX1_SCHIJF_1_PERC, schijf1_bedrag),
             Times(BOX1_SCHIJF_2_PERC, schijf2_bedrag))

\* variant: the phase-out measured from AH_TARIEF_1 itself (no _min1)
algemene_heffingskorting_zonder_min1(inkomen) ==
    IF inkomen < Eenheden(AH_TARIEF_1)
    THEN Bedrag(AH_KORTING)
    ELSE IF inkomen < Eenheden(AH_TARIEF_2)
    THEN Minus(Bedrag(AH_KORTING),
               Times(AH_PERC, inkomen - Eenheden(AH_TARIEF_1)))
    ELSE Zero

algemene_heffingskorting(inkomen) ==
    IF inkomen < Eenheden(AH_TARIEF_1)
    THEN Bedrag(AH_KORTING)
    ELSE IF inkomen < Eenheden(AH_TARIEF_2)
    THEN Minus(Bedrag(AH_KORTING),
               Times(AH_PERC, inkomen - min1(Eenheden(AH_TARIEF_1))))
    ELSE Zero

\* variant: the third branch given the same _min1 offset as the second
arbeidskorting_min1_in_derde(inkomen) ==
    IF inkomen < Eenheden(AK_TARIEF_1)
    THEN Times(AK_SCHIJF_1_PERC, inkomen)
    ELSE IF inkomen < Eenheden(AK_TARIEF_2)
    THEN Plus(Bedrag(AK_KORTING_1),
              Times(AK_SCHIJF_2_PERC, inkomen - min1(Eenheden(AK_TARIEF_1))))
    ELSE IF inkomen < Eenheden(AK_TARIEF_3)
    THEN Plus(Bedrag(AK_KORTING_2),
              Times(AK_SCHIJF_3_PERC, inkomen - min1(Eenheden(AK_TARIEF_2))))
    ELSE IF inkomen < Eenheden(AK_TARIEF_4)
    THEN Minus(Bedrag(AK_KORTING_3),
               Times(AK_SCHIJF_4_PERC, inkomen - Eenheden(AK_TARIEF_3)))
    ELSE Zero

\* variant: the third branch without its anchor AK_KORTING_2
arbeidskorting_zonder_anker(inkomen) ==
    IF inkomen < Eenheden(AK_TARIEF_1)
    THEN Times(AK_SCHIJF_1_PERC, inkomen)
    ELSE IF inkomen < Eenheden(AK_TARIEF_2)
    THEN Plus(Bedrag(AK_KORTING_1),
              Times(AK_SCHIJF_2_PERC, inkomen - min1(Eenheden(AK_TARIEF_1))))
    ELSE IF inkomen < Eenheden(AK_TARIEF_3)
    THEN Times(AK_SCHIJF_3_PERC, inkomen - Eenheden(AK_TARIEF_2))
    ELSE IF inkomen < Eenheden(AK_TARIEF_4)
    THEN Minus(Bedrag(AK_KORTING_3),
               Times(AK_SCHIJF_4_PERC, inkomen - Eenheden(AK_TARIEF_3)))
    ELSE Zero

\* variant: no final branch, the decreasing branch runs on past AK_TARIEF_4
arbeidskorting_zonder_eind(inkomen) ==
    IF inkomen < Eenheden(AK_TARIEF_1)
    THEN Times(AK_SCHIJF_1_PERC, inkomen)
    ELSE IF inkomen < Eenheden(AK_TARIEF_2)
    THEN Plus(Bedrag(AK_KORTING_1),
              Times(AK_SCHIJF_2_PERC, inkomen - min1(Eenheden(AK_TARIEF_1))))
    ELSE IF inkomen < Eenheden(AK_TARIEF_3)
    THEN Plus(Bedrag(AK_KORTING_2),
              Times(AK_SCHIJF_3_PERC, inkomen - Eenheden(AK_TARIEF_2)))
    ELSE Minus(Bedrag(AK_KORTING_3),
               Times(AK_SCHIJF_4_PERC, inkomen - Eenheden(AK_TARIEF_3)))

arbeidskorting(inkomen) ==
    IF inkomen < Eenheden(AK_TARIEF_1)
    THEN Times(AK_SCHIJF_1_PERC, inkomen)
    ELSE IF inkomen < Eenheden(AK_TARIEF_2)
    THEN Plus(Bedrag(AK_KORTING_1),
              Times(AK_SCHIJF_2_PERC, inkomen - min1(Eenheden(AK_TARIEF_1))))
    ELSE IF inkomen < Eenheden(AK_TARIEF_3)
    THEN Plus(Bedrag(AK_KORTING_2),
              Times(AK_SCHIJF_3_PERC, inkomen - Eenheden(AK_TARIEF_2)))
    ELSE IF inkomen < Eenheden(AK_TARIEF_4)
    THEN Minus(Bedrag(AK_KORTING_3),
               Times(AK_SCHIJF_4_PERC, inkomen - Eenheden(AK_TARIEF_3)))
    ELSE Zero

\* variant: the difference returned without the floor at zero
belasting_zonder_vloer(bruto) ==
    Minus(Minus(box1_tarief(bruto), algemene_heffingskorting(bruto)),
          arbeidskorting(bruto))

belasting(bruto) ==
    LET bedrag == Minus(Minus(box1_tarief(bruto),
                              algemene_heffingskorting(bruto)),
                        arbeidskorting(bruto))
    IN  MaxA(bedrag, Zero)

netto(bruto) == Minus(VanInkomen(bruto), belasting(bruto))

\* the quotient belasting / bruto is kept as the exact fraction num / den
belasting_perc(bruto) ==
    IF bruto = 0
    THEN [num |-> Zero, den |-> Eenheden(1)]
    ELSE [num |-> belasting(bruto), den |-> bruto]

\* variant: backward difference belasting(bruto) - belasting(bruto - 1)
marginale_belasting_terug(bruto) ==
    Minus(belasting(bruto), belasting(bruto - Eenheden(1)))

marginale_belasting(bruto) ==
    Minus(belasting(bruto + Eenheden(1)), belasting(bruto))

(* ---------------- the incomes the functions are called with ------------ *)
Drempels == {BOX1_TARIEF, AH_TARIEF_1, AH_TARIEF_2,
             AK_TARIEF_1, AK_TARIEF_2, AK_TARIEF_3, AK_TARIEF_4}

Rooster == {Eenheden(k) : k \in 0..MaxInkomen}

Vensters == UNION {(Eenheden(t - Venster))..(Eenheden(t + Venster)) : t \in Drempels}

Negatief == {Eenheden(0 - k) : k \in 1..MaxNegatief}

Inkomens == Rooster \cup Vensters \cup Negatief \cup (0..Eenheden(Venster))

(* ---------------- state ---------------- *)
VARIABLES inkomen, functie, uitkomst, afloop

vars == <<inkomen, functie, uitkomst, afloop>>

Init ==
    /\ inkomen \in Inkomens
    /\ functie = "geen"
    /\ uitkomst = Zero
    /\ afloop = "geen"

\* a call evaluates its body and returns the value; no function of the
\* module has a raise statement or a check of its argument
Return(naam, waarde) ==
    /\ functie = "geen"
    /\ functie' = naam
    /\ uitkomst' = waarde
    /\ afloop' = "waarde"
    /\ UNCHANGED inkomen

CallBox1Tarief == Return("box1_tarief", box1_tarief(inkomen))

CallAlgemeneHeffingskorting ==
    Return("algemene_heffingskorting", algemene_heffingskorting(inkomen))

CallArbeidskorting == Return("arbeidskorting", arbeidskorting(inkomen))

CallBelasting == Return("belasting", belasting(inkomen))

CallNetto == Return("netto", netto(inkomen))

CallBelastingPerc == Return("belasting_perc", belasting_perc(inkomen))

CallMarginaleBelasting ==
    Return("marginale_belasting", marginale_belasting(inkomen))

Next ==
    \/ CallBox1Tarief
    \/ CallAlgemeneHeffingskorting
    \/ CallArbeidskorting
    \/ CallBelasting
    \/ CallNetto
    \/ CallBelastingPerc
    \/ CallMarginaleBelasting

Spec == Init /\ [][Next]_vars

TypeOK ==
    /\ inkomen \in Inkomens
    /\ functie \in {"geen", "box1_tarief", "algemene_heffingskorting",
                    "arbeidskorting", "belasting", "netto", "belasting_perc",
                    "marginale_belasting"}
    /\ afloop \in {"geen", "waarde", "fout"}

(* 
\* C4 (as claimed): a call of any function with a negative income ends in
\* an error and never returns a number.
C4_NegatiefGeweigerd ==
    (inkomen < 0 /\ functie # "geen") => afloop = "fout"

\* the two branches of box1_tarief, written out
Box1_Verwacht(x) ==
    IF x <= Eenheden(BOX1_TARIEF)
    THEN Times(BOX1_SCHIJF_1_PERC, x)
    ELSE Plus(Times(BOX1_SCHIJF_1_PERC, Eenheden(BOX1_TARIEF)),
              Times(BOX1_SCHIJF_2_PERC, x - Eenheden(BOX1_TARIEF)))

\* C5: for every income >= 0 box1_tarief is
\* min(income, BOX1_TARIEF) * BOX1_SCHIJF_1_PERC
\*   + max(income - BOX1_TARIEF, 0) * BOX1_SCHIJF_2_PERC;
\* a unit step of income raises it by at least BOX1_SCHIJF_1_PERC and at
\* most BOX1_SCHIJF_2_PERC (non-decreasing, no jump at the threshold), and
\* box1_tarief(BOX1_TARIEF) = BOX1_TARIEF * BOX1_SCHIJF_1_PERC.
C5_Box1Tarief ==
    (functie = "box1_tarief" /\ inkomen >= 0) =>
        /\ uitkomst = Box1_Verwacht(inkomen)
        /\ LET groei == Minus(box1_tarief(inkomen + Eenheden(1)), uitkomst)
           IN  /\ Leq(Times(BOX1_SCHIJF_1_PERC, Eenheden(1)), groei)
               /\ Leq(groei, Times(BOX1_SCHIJF_2_PERC, Eenheden(1)))
        /\ (inkomen >= 1 => Leq(box1_tarief(inkomen - 1), uitkomst))
        /\ (inkomen = Eenheden(BOX1_TARIEF)
                => uitkomst = Times(BOX1_SCHIJF_1_PERC, Eenheden(BOX1_TARIEF)))

\* C5 witness: box1_tarief has returned for the income half a unit below the
\* threshold, whose unit step crosses it: the growth over that step lies
\* strictly between the two rates.
C5_Witness ==
    /\ functie = "box1_tarief"
    /\ inkomen > Eenheden(BOX1_TARIEF - 1)
    /\ inkomen < Eenheden(BOX1_TARIEF)
    /\ LET groei == Minus(box1_tarief(inkomen + Eenheden(1)), uitkomst)
       IN  /\ Less(Times(BOX1_SCHIJF_1_PERC, Eenheden(1)), groei)
           /\ Less(groei, Times(BOX1_SCHIJF_2_PERC, Eenheden(1)))

\* the forward difference of belasting over the unit step starting at x
Stap1(x) == Minus(belasting(x + Eenheden(1)), belasting(x))

\* C6 (as claimed): marginale_belasting(income) is
\* belasting(income + 1) - belasting(income) for every income >= 0, and the
\* marginal rate of the step from AH_TARIEF_1 - 1 to AH_TARIEF_1 differs
\* from that of the unit step before it and from that of the unit step
\* after it (a spike).
C6_MarginaleSpike ==
    (functie = "marginale_belasting" /\ inkomen >= 0) =>
        /\ uitkomst = Stap1(inkomen)
        /\ (inkomen = Eenheden(AH_TARIEF_1 - 1)
                => /\ uitkomst # Stap1(Eenheden(AH_TARIEF_1 - 2))
                   /\ uitkomst # Stap1(Eenheden(AH_TARIEF_1)))

\* C6 (amended): marginale_belasting(income) is
\* belasting(income + 1) - belasting(income) for every income >= 0; the
\* marginal rate of the step from AH_TARIEF_1 - 1 to AH_TARIEF_1 is higher
\* by AH_PERC than that of the unit step before it and equal to that of the
\* unit step after it: a step up, not a spike.
C6_MarginaleTrede ==
    (functie = "marginale_belasting" /\ inkomen >= 0) =>
        /\ uitkomst = Stap1(inkomen)
        /\ (inkomen = Eenheden(AH_TARIEF_1 - 1)
                => /\ uitkomst # Stap1(Eenheden(AH_TARIEF_1 - 2))
                   /\ uitkomst = Plus(Stap1(Eenheden(AH_TARIEF_1 - 2)),
                                      Times(AH_PERC, Eenheden(1)))
                   /\ uitkomst = Stap1(Eenheden(AH_TARIEF_1)))

\* C6 witness: marginale_belasting(AH_TARIEF_1 - 1) has returned
\* 0.3693 + 0.06095 - 0.29861 = 0.13164.
C6_Witness ==
    /\ functie = "marginale_belasting"
    /\ inkomen = Eenheden(AH_TARIEF_1 - 1)
    /\ uitkomst = <<0, (BOX1_SCHIJF_1_PERC + AH_PERC - AK_SCHIJF_2_PERC) * Denom>>

\* C7: for every income at or above both AH_TARIEF_2 and AK_TARIEF_4 (such
\* as 150000) algemene_heffingskorting and arbeidskorting are 0 and belasting
\* is exactly box1_tarief.
C7_BovenDeKortingen ==
    (inkomen >= Eenheden(AH_TARIEF_2) /\ inkomen >= Eenheden(AK_TARIEF_4)) =>
        /\ (functie = "algemene_heffingskorting" => uitkomst = Zero)
        /\ (functie = "arbeidskorting" => uitkomst = Zero)
        /\ (functie = "belasting" =>
                /\ uitkomst = Box1_Verwacht(inkomen)
                /\ uitkomst = box1_tarief(inkomen))

\* C7 witness: belasting(150000) has returned box1_tarief(150000) =
\* 73031 * 0.3693 + 76969 * 0.4950 = 65070.0033.
C7_Witness ==
    /\ functie = "belasting"
    /\ inkomen = Eenheden(150000)
    /\ uitkomst = <<65070, 330 * Denom>>

\* C8: arbeidskorting has the "-1" offset in its second branch only:
\* AK_SCHIJF_1_PERC * income below AK_TARIEF_1;
\* AK_KORTING_1 + AK_SCHIJF_2_PERC * (income - (AK_TARIEF_1 - 1)) on
\* [AK_TARIEF_1, AK_TARIEF_2), so AK_KORTING_1 + AK_SCHIJF_2_PERC at
\* AK_TARIEF_1; AK_KORTING_2 + AK_SCHIJF_3_PERC * (income - AK_TARIEF_2) on
\* [AK_TARIEF_2, AK_TARIEF_3), so AK_KORTING_2 at AK_TARIEF_2;
\* AK_KORTING_3 - AK_SCHIJF_4_PERC * (income - AK_TARIEF_3) on
\* [AK_TARIEF_3, AK_TARIEF_4), so AK_KORTING_3 at AK_TARIEF_3.
C8_ArbeidskortingTakken ==
    functie = "arbeidskorting" =>
        /\ (inkomen < Eenheden(AK_TARIEF_1)
                => uitkomst = Times(AK_SCHIJF_1_PERC, inkomen))
        /\ (inkomen >= Eenheden(AK_TARIEF_1) /\ inkomen < Eenheden(AK_TARIEF_2)
                => uitkomst = Plus(Bedrag(AK_KORTING_1),
                                   Times(AK_SCHIJF_2_PERC,
                                         inkomen - Eenheden(AK_TARIEF_1 - 1))))
        /\ (inkomen = Eenheden(AK_TARIEF_1)
                => uitkomst = <<AK_KORTING_1, AK_SCHIJF_2_PERC * Denom>>)
        /\ (inkomen >= Eenheden(AK_TARIEF_2) /\ inkomen < Eenheden(AK_TARIEF_3)
                => uitkomst = Plus(Bedrag(AK_KORTING_2),
                                   Times(AK_SCHIJF_3_PERC,
                                         inkomen - Eenheden(AK_TARIEF_2))))
        /\ (inkomen = Eenheden(AK_TARIEF_2) => uitkomst = Bedrag(AK_KORTING_2))
        /\ (inkomen >= Eenheden(AK_TARIEF_3) /\ inkomen < Eenheden(AK_TARIEF_4)
                => uitkomst = Minus(Bedrag(AK_KORTING_3),
                                    Times(AK_SCHIJF_4_PERC,
                                          inkomen - Eenheden(AK_TARIEF_3))))
        /\ (inkomen = Eenheden(AK_TARIEF_3) => uitkomst = Bedrag(AK_KORTING_3))

\* C8 witness: arbeidskorting(AK_TARIEF_2) has returned AK_KORTING_2 exactly.
C8_Witness ==
    /\ functie = "arbeidskorting"
    /\ inkomen = Eenheden(AK_TARIEF_2)
    /\ uitkomst = Bedrag(AK_KORTING_2)

\* a whole number of currency units
HeelInkomen == inkomen % Denom = 0

\* C9 (as claimed): for every whole income >= 0 algemene_heffingskorting
\* lies in [0, AH_KORTING]; in particular it is not negative at
\* AH_TARIEF_2 - 1.
C9_AlgemeneHeffingskortingBereik ==
    (functie = "algemene_heffingskorting" /\ inkomen >= 0 /\ HeelInkomen) =>
        /\ ~Less(uitkomst, Zero)
        /\ Leq(uitkomst, Bedrag(AH_KORTING))

\* C10: for every whole income >= 0, 0 <= marginale_belasting < 1, so
\* belasting is non-decreasing and netto strictly increasing along unit
\* steps; belasting(0) = 0, 0 <= belasting(income) <= income and
\* netto(income) >= 0.
C10_MarginaalTussen0En1 ==
    (inkomen >= 0 /\ HeelInkomen) =>
        /\ (functie = "marginale_belasting" =>
                /\ ~Less(uitkomst, Zero)
                /\ Less(uitkomst, Bedrag(1)))
        /\ (functie = "belasting" =>
                /\ ~Less(uitkomst, Zero)
                /\ Leq(uitkomst, VanInkomen(inkomen))
                /\ Leq(uitkomst, belasting(inkomen + Eenheden(1)))
                /\ (inkomen = 0 => uitkomst = Zero))
        /\ (functie = "netto" =>
                /\ ~Less(uitkomst, Zero)
                /\ Less(uitkomst, netto(inkomen + Eenheden(1)))
                /\ (inkomen = 0 => uitkomst = Zero))

\* C10 witness: marginale_belasting(BOX1_TARIEF - 1) has returned
\* 0.3829: over this step the second bracket starts and the (negative)
\* algemene heffingskorting of -0.0515 is replaced by 0.
C10_Witness ==
    /\ functie = "marginale_belasting"
    /\ inkomen = Eenheden(BOX1_TARIEF - 1)
    /\ uitkomst = <<0, 38290 * Denom>>
====
\* C4 (as claimed): a call of any function with a negative income ends in
\* an error and never returns a number.
C4_NegatiefGeweigerd ==
    (inkomen < 0 /\ functie # "geen") => afloop = "fout"

\* the two branches of box1_tarief, written out
Box1_Verwacht(x) ==
    IF x <= Eenheden(BOX1_TARIEF)
    THEN Times(BOX1_SCHIJF_1_PERC, x)
    ELSE Plus(Times(BOX1_SCHIJF_1_PERC, Eenheden(BOX1_TARIEF)),
              Times(BOX1_SCHIJF_2_PERC, x - Eenheden(BOX1_TARIEF)))

\* C5: for every income >= 0 box1_tarief is
\* min(income, BOX1_TARIEF) * BOX1_SCHIJF_1_PERC
\*   + max(income - BOX1_TARIEF, 0) * BOX1_SCHIJF_2_PERC;
\* a unit step of income raises it by at least BOX1_SCHIJF_1_PERC and at
\* most BOX1_SCHIJF_2_PERC (non-decreasing, no jump at the threshold), and
\* box1_tarief(BOX1_TARIEF) = BOX1_TARIEF * BOX1_SCHIJF_1_PERC.
C5_Box1Tarief ==
    (functie = "box1_tarief" /\ inkomen >= 0) =>
        /\ uitkomst = Box1_Verwacht(inkomen)
        /\ LET groei == Minus(box1_tarief(inkomen + Eenheden(1)), uitkomst)
           IN  /\ Leq(Times(BOX1_SCHIJF_1_PERC, Eenheden(1)), groei)
               /\ Leq(groei, Times(BOX1_SCHIJF_2_PERC, Eenheden(1)))
        /\ (inkomen >= 1 => Leq(box1_tarief(inkomen - 1), uitkomst))
        /\ (inkomen = Eenheden(BOX1_TARIEF)
                => uitkomst = Times(BOX1_SCHIJF_1_PERC, Eenheden(BOX1_TARIEF)))

\* C5 witness: box1_tarief has returned for the income half a unit below the
\* threshold, whose unit step crosses it: the growth over that step lies
\* strictly between the two rates.
C5_Witness ==
    /\ functie = "box1_tarief"
    /\ inkomen > Eenheden(BOX1_TARIEF - 1)
    /\ inkomen < Eenheden(BOX1_TARIEF)
    /\ LET groei == Minus(box1_tarief(inkomen + Eenheden(1)), uitkomst)
       IN  /\ Less(Times(BOX1_SCHIJF_1_PERC, Eenheden(1)), groei)
           /\ Less(groei, Times(BOX1_SCHIJF_2_PERC, Eenheden(1)))

\* the forward difference of belasting over the unit step starting at x
Stap1(x) == Minus(belasting(x + Eenheden(1)), belasting(x))

\* C6 (as claimed): marginale_belasting(income) is
\* belasting(income + 1) - belasting(income) for every income >= 0, and the
\* marginal rate of the step from AH_TARIEF_1 - 1 to AH_TARIEF_1 differs
\* from that of the unit step before it and from that of the unit step
\* after it (a spike).
C6_MarginaleSpike ==
    (functie = "marginale_belasting" /\ inkomen >= 0) =>
        /\ uitkomst = Stap1(inkomen)
        /\ (inkomen = Eenheden(AH_TARIEF_1 - 1)
                => /\ uitkomst # Stap1(Eenheden(AH_TARIEF_1 - 2))
                   /\ uitkomst # Stap1(Eenheden(AH_TARIEF_1)))

\* C6 (amended): marginale_belasting(income) is
\* belasting(income + 1) - belasting(income) for every income >= 0; the
\* marginal rate of the step from AH_TARIEF_1 - 1 to AH_TARIEF_1 is higher
\* by AH_PERC than that of the unit step before it and equal to that of the
\* unit step after it: a step up, not a spike.
C6_MarginaleTrede ==
    (functie = "marginale_belasting" /\ inkomen >= 0) =>
        /\ uitkomst = Stap1(inkomen)
        /\ (inkomen = Eenheden(AH_TARIEF_1 - 1)
                => /\ uitkomst # Stap1(Eenheden(AH_TARIEF_1 - 2))
                   /\ uitkomst = Plus(Stap1(Eenheden(AH_TARIEF_1 - 2)),
                                      Times(AH_PERC, Eenheden(1)))
                   /\ uitkomst = Stap1(Eenheden(AH_TARIEF_1)))

\* C6 witness: marginale_belasting(AH_TARIEF_1 - 1) has returned
\* 0.3693 + 0.06095 - 0.29861 = 0.13164.
C6_Witness ==
    /\ functie = "marginale_belasting"
    /\ inkomen = Eenheden(AH_TARIEF_1 - 1)
    /\ uitkomst = <<0, (BOX1_SCHIJF_1_PERC + AH_PERC - AK_SCHIJF_2_PERC) * Denom>>

\* C7: for every income at or above both AH_TARIEF_2 and AK_TARIEF_4 (such
\* as 150000) algemene_heffingskorting and arbeidskorting are 0 and belasting
\* is exactly box1_tarief.
C7_BovenDeKortingen ==
    (inkomen >= Eenheden(AH_TARIEF_2) /\ inkomen >= Eenheden(AK_TARIEF_4)) =>
        /\ (functie = "algemene_heffingskorting" => uitkomst = Zero)
        /\ (functie = "arbeidskorting" => uitkomst = Zero)
        /\ (functie = "belasting" =>
                /\ uitkomst = Box1_Verwacht(inkomen)
                /\ uitkomst = box1_tarief(inkomen))

\* C7 witness: belasting(150000) has returned box1_tarief(150000) =
\* 73031 * 0.3693 + 76969 * 0.4950 = 65070.0033.
C7_Witness ==
    /\ functie = "belasting"
    /\ inkomen = Eenheden(150000)
    /\ uitkomst = <<65070, 330 * Denom>>

\* C8: arbeidskorting has the "-1" offset in its second branch only:
\* AK_SCHIJF_1_PERC * income below AK_TARIEF_1;
\* AK_KORTING_1 + AK_SCHIJF_2_PERC * (income - (AK_TARIEF_1 - 1)) on
\* [AK_TARIEF_1, AK_TARIEF_2), so AK_KORTING_1 + AK_SCHIJF_2_PERC at
\* AK_TARIEF_1; AK_KORTING_2 + AK_SCHIJF_3_PERC * (income - AK_TARIEF_2) on
\* [AK_TARIEF_2, AK_TARIEF_3), so AK_KORTING_2 at AK_TARIEF_2;
\* AK_KORTING_3 - AK_SCHIJF_4_PERC * (income - AK_TARIEF_3) on
\* [AK_TARIEF_3, AK_TARIEF_4), so AK_KORTING_3 at AK_TARIEF_3.
C8_ArbeidskortingTakken ==
    functie = "arbeidskorting" =>
        /\ (inkomen < Eenheden(AK_TARIEF_1)
                => uitkomst = Times(AK_SCHIJF_1_PERC, inkomen))
        /\ (inkomen >= Eenheden(AK_TARIEF_1) /\ inkomen < Eenheden(AK_TARIEF_2)
                => uitkomst = Plus(Bedrag(AK_KORTING_1),
                                   Times(AK_SCHIJF_2_PERC,
                                         inkomen - Eenheden(AK_TARIEF_1 - 1))))
        /\ (inkomen = Eenheden(AK_TARIEF_1)
                => uitkomst = <<AK_KORTING_1, AK_SCHIJF_2_PERC * Denom>>)
        /\ (inkomen >= Eenheden(AK_TARIEF_2) /\ inkomen < Eenheden(AK_TARIEF_3)
                => uitkomst = Plus(Bedrag(AK_KORTING_2),
                                   Times(AK_SCHIJF_3_PERC,
                                         inkomen - Eenheden(AK_TARIEF_2))))
        /\ (inkomen = Eenheden(AK_TARIEF_2) => uitkomst = Bedrag(AK_KORTING_2))
        /\ (inkomen >= Eenheden(AK_TARIEF_3) /\ inkomen < Eenheden(AK_TARIEF_4)
                => uitkomst = Minus(Bedrag(AK_KORTING_3),
                                    Times(AK_SCHIJF_4_PERC,
                                          inkomen - Eenheden(AK_TARIEF_3))))
        /\ (inkomen = Eenheden(AK_TARIEF_3) => uitkomst = Bedrag(AK_KORTING_3))

\* C8 witness: arbeidskorting(AK_TARIEF_2) has returned AK_KORTING_2 exactly.
C8_Witness ==
    /\ functie = "arbeidskorting"
    /\ inkomen = Eenheden(AK_TARIEF_2)
    /\ uitkomst = Bedrag(AK_KORTING_2)

\* a whole number of currency units
HeelInkomen == inkomen % Denom = 0

\* C9 (as claimed): for every whole income >= 0 algemene_heffingskorting
\* lies in [0, AH_KORTING]; in particular it is not negative at
\* AH_TARIEF_2 - 1.
C9_AlgemeneHeffingskortingBereik ==
    (functie = "algemene_heffingskorting" /\ inkomen >= 0 /\ HeelInkomen) =>
        /\ ~Less(uitkomst, Zero)
        /\ Leq(uitkomst, Bedrag(AH_KORTING))

\* C10: for every whole income >= 0, 0 <= marginale_belasting < 1, so
\* belasting is non-decreasing and netto strictly increasing along unit
\* steps; belasting(0) = 0, 0 <= belasting(income) <= income and
\* netto(income) >= 0.
C10_MarginaalTussen0En1 ==
    (inkomen >= 0 /\ HeelInkomen) =>
        /\ (functie = "marginale_belasting" =>
                /\ ~Less(uitkomst, Zero)
                /\ Less(uitkomst, Bedrag(1)))
        /\ (functie = "belasting" =>
                /\ ~Less(uitkomst, Zero)
                /\ Leq(uitkomst, VanInkomen(inkomen))
                /\ Leq(uitkomst, belasting(inkomen + Eenheden(1)))
                /\ (inkomen = 0 => uitkomst = Zero))
        /\ (functie = "netto" =>
                /\ ~Less(uitkomst, Zero)
                /\ Less(uitkomst, netto(inkomen + Eenheden(1)))
                /\ (inkomen = 0 => uitkomst = Zero))

\* C10 witness: marginale_belasting(BOX1_TARIEF - 1) has returned
\* 0.3829: over this step the second bracket starts and the (negative)
\* algemene heffingskorting of -0.0515 is replaced by 0.
C10_Witness ==
    /\ functie = "marginale_belasting"
    /\ inkomen = Eenheden(BOX1_TARIEF - 1)
    /\ uitkomst = <<0, 38290 * Denom>>
====
\* C4 (as claimed): a call of any function with a negative income ends in
\* an error and never returns a number.
C4_NegatiefGeweigerd ==
    (inkomen < 0 /\ functie # "geen") => afloop = "fout"

\* the two branches of box1_tarief, written out
Box1_Verwacht(x) ==
    IF x <= Eenheden(BOX1_TARIEF)
    THEN Times(BOX1_SCHIJF_1_PERC, x)
    ELSE Plus(Times(BOX1_SCHIJF_1_PERC, Eenheden(BOX1_TARIEF)),
              Times(BOX1_SCHIJF_2_PERC, x - Eenheden(BOX1_TARIEF)))

\* C5: for every income >= 0 box1_tarief is
\* min(income, BOX1_TARIEF) * BOX1_SCHIJF_1_PERC
\*   + max(income - BOX1_TARIEF, 0) * BOX1_SCHIJF_2_PERC;
\* a unit step of income raises it by at least BOX1_SCHIJF_1_PERC and at
\* most BOX1_SCHIJF_2_PERC (non-decreasing, no jump at the threshold), and
\* box1_tarief(BOX1_TARIEF) = BOX1_TARIEF * BOX1_SCHIJF_1_PERC.
C5_Box1Tarief ==
    (functie = "box1_tarief" /\ inkomen >= 0) =>
        /\ uitkomst = Box1_Verwacht(inkomen)
        /\ LET groei == Minus(box1_tarief(inkomen + Eenheden(1)), uitkomst)
           IN  /\ Leq(Times(BOX1_SCHIJF_1_PERC, Eenheden(1)), groei)
               /\ Leq(groei, Times(BOX1_SCHIJF_2_PERC, Eenheden(1)))
        /\ (inkomen >= 1 => Leq(box1_tarief(inkomen - 1), uitkomst))
        /\ (inkomen = Eenheden(BOX1_TARIEF)
                => uitkomst = Times(BOX1_SCHIJF_1_PERC, Eenheden(BOX1_TARIEF)))

\* C5 witness: box1_tarief has returned for the income half a unit below the
\* threshold, whose unit step crosses it: the growth over that step lies
\* strictly between the two rates.
C5_Witness ==
    /\ functie = "box1_tarief"
    /\ inkomen > Eenheden(BOX1_TARIEF - 1)
    /\ inkomen < Eenheden(BOX1_TARIEF)
    /\ LET groei == Minus(box1_tarief(inkomen + Eenheden(1)), uitkomst)
       IN  /\ Less(Times(BOX1_SCHIJF_1_PERC, Eenheden(1)), groei)
           /\ Less(groei, Times(BOX1_SCHIJF_2_PERC, Eenheden(1)))

\* the forward difference of belasting over the unit step starting at x
Stap1(x) == Minus(belasting(x + Eenheden(1)), belasting(x))

\* C6 (as claimed): marginale_belasting(income) is
\* belasting(income + 1) - belasting(income) for every income >= 0, and the
\* marginal rate of the step from AH_TARIEF_1 - 1 to AH_TARIEF_1 differs
\* from that of the unit step before it and from that of the unit step
\* after it (a spike).
C6_MarginaleSpike ==
    (functie = "marginale_belasting" /\ inkomen >= 0) =>
        /\ uitkomst = Stap1(inkomen)
        /\ (inkomen = Eenheden(AH_TARIEF_1 - 1)
                => /\ uitkomst # Stap1(Eenheden(AH_TARIEF_1 - 2))
                   /\ uitkomst # Stap1(Eenheden(AH_TARIEF_1)))

\* C6 (amended): marginale_belasting(income) is
\* belasting(income + 1) - belasting(income) for every income >= 0; the
\* marginal rate of the step from AH_TARIEF_1 - 1 to AH_TARIEF_1 is higher
\* by AH_PERC than that of the unit step before it and equal to that of the
\* unit step after it: a step up, not a spike.
C6_MarginaleTrede ==
    (functie = "marginale_belasting" /\ inkomen >= 0) =>
        /\ uitkomst = Stap1(inkomen)
        /\ (inkomen = Eenheden(AH_TARIEF_1 - 1)
                => /\ uitkomst # Stap1(Eenheden(AH_TARIEF_1 - 2))
                   /\ uitkomst = Plus(Stap1(Eenheden(AH_TARIEF_1 - 2)),
                                      Times(AH_PERC, Eenheden(1)))
                   /\ uitkomst = Stap1(Eenheden(AH_TARIEF_1)))

\* C6 witness: marginale_belasting(AH_TARIEF_1 - 1) has returned
\* 0.3693 + 0.06095 - 0.29861 = 0.13164.
C6_Witness ==
    /\ functie = "marginale_belasting"
    /\ inkomen = Eenheden(AH_TARIEF_1 - 1)
    /\ uitkomst = <<0, (BOX1_SCHIJF_1_PERC + AH_PERC - AK_SCHIJF_2_PERC) * Denom>>

\* C7: for every income at or above both AH_TARIEF_2 and AK_TARIEF_4 (such
\* as 150000) algemene_heffingskorting and arbeidskorting are 0 and belasting
\* is exactly box1_tarief.
C7_BovenDeKortingen ==
    (inkomen >= Eenheden(AH_TARIEF_2) /\ inkomen >= Eenheden(AK_TARIEF_4)) =>
        /\ (functie = "algemene_heffingskorting" => uitkomst = Zero)
        /\ (functie = "arbeidskorting" => uitkomst = Zero)
        /\ (functie = "belasting" =>
                /\ uitkomst = Box1_Verwacht(inkomen)
                /\ uitkomst = box1_tarief(inkomen))

\* C7 witness: belasting(150000) has returned box1_tarief(150000) =
\* 73031 * 0.3693 + 76969 * 0.4950 = 65070.0033.
C7_Witness ==
    /\ functie = "belasting"
    /\ inkomen = Eenheden(150000)
    /\ uitkomst = <<65070, 330 * Denom>>

\* C8: arbeidskorting has the "-1" offset in its second branch only:
\* AK_SCHIJF_1_PERC * income below AK_TARIEF_1;
\* AK_KORTING_1 + AK_SCHIJF_2_PERC * (income - (AK_TARIEF_1 - 1)) on
\* [AK_TARIEF_1, AK_TARIEF_2), so AK_KORTING_1 + AK_SCHIJF_2_PERC at
\* AK_TARIEF_1; AK_KORTING_2 + AK_SCHIJF_3_PERC * (income - AK_TARIEF_2) on
\* [AK_TARIEF_2, AK_TARIEF_3), so AK_KORTING_2 at AK_TARIEF_2;
\* AK_KORTING_3 - AK_SCHIJF_4_PERC * (income - AK_TARIEF_3) on
\* [AK_TARIEF_3, AK_TARIEF_4), so AK_KORTING_3 at AK_TARIEF_3.
C8_ArbeidskortingTakken ==
    functie = "arbeidskorting" =>
        /\ (inkomen < Eenheden(AK_TARIEF_1)
                => uitkomst = Times(AK_SCHIJF_1_PERC, inkomen))
        /\ (inkomen >= Eenheden(AK_TARIEF_1) /\ inkomen < Eenheden(AK_TARIEF_2)
                => uitkomst = Plus(Bedrag(AK_KORTING_1),
                                   Times(AK_SCHIJF_2_PERC,
                                         inkomen - Eenheden(AK_TARIEF_1 - 1))))
        /\ (inkomen = Eenheden(AK_TARIEF_1)
                => uitkomst = <<AK_KORTING_1, AK_SCHIJF_2_PERC * Denom>>)
        /\ (inkomen >= Eenheden(AK_TARIEF_2) /\ inkomen < Eenheden(AK_TARIEF_3)
                => uitkomst = Plus(Bedrag(AK_KORTING_2),
                                   Times(AK_SCHIJF_3_PERC,
                                         inkomen - Eenheden(AK_TARIEF_2))))
        /\ (inkomen = Eenheden(AK_TARIEF_2) => uitkomst = Bedrag(AK_KORTING_2))
        /\ (inkomen >= Eenheden(AK_TARIEF_3) /\ inkomen < Eenheden(AK_TARIEF_4)
                => uitkomst = Minus(Bedrag(AK_KORTING_3),
                                    Times(AK_SCHIJF_4_PERC,
                                          inkomen - Eenheden(AK_TARIEF_3))))
        /\ (inkomen = Eenheden(AK_TARIEF_3) => uitkomst = Bedrag(AK_KORTING_3))

\* C8 witness: arbeidskorting(AK_TARIEF_2) has returned AK_KORTING_2 exactly.
C8_Witness ==
    /\ functie = "arbeidskorting"
    /\ inkomen = Eenheden(AK_TARIEF_2)
    /\ uitkomst = Bedrag(AK_KORTING_2)

\* a whole number of currency units
HeelInkomen == inkomen % Denom = 0

\* C9 (as claimed): for every whole income >= 0 algemene_heffingskorting
\* lies in [0, AH_KORTING]; in particular it is not negative at
\* AH_TARIEF_2 - 1.
C9_AlgemeneHeffingskortingBereik ==
    (functie = "algemene_heffingskorting" /\ inkomen >= 0 /\ HeelInkomen) =>
        /\ ~Less(uitkomst, Zero)
        /\ Leq(uitkomst, Bedrag(AH_KORTING))

\* C10: for every whole income >= 0, 0 <= marginale_belasting < 1, so
\* belasting is non-decreasing and netto strictly increasing along unit
\* steps; belasting(0) = 0, 0 <= belasting(income) <= income and
\* netto(income) >= 0.
C10_MarginaalTussen0En1 ==
    (inkomen >= 0 /\ HeelInkomen) =>
        /\ (functie = "marginale_belasting" =>
                /\ ~Less(uitkomst, Zero)
                /\ Less(uitkomst, Bedrag(1)))
        /\ (functie = "belasting" =>
                /\ ~Less(uitkomst, Zero)
                /\ Leq(uitkomst, VanInkomen(inkomen))
                /\ Leq(uitkomst, belasting(inkomen + Eenheden(1)))
                /\ (inkomen = 0 => uitkomst = Zero))
        /\ (functie = "netto" =>
                /\ ~Less(uitkomst, Zero)
                /\ Less(uitkomst, netto(inkomen + Eenheden(1)))
                /\ (inkomen = 0 => uitkomst = Zero))

\* C10 witness: marginale_belasting(BOX1_TARIEF - 1) has returned
\* 0.3829: over this step the second bracket starts and the (negative)
\* algemene heffingskorting of -0.0515 is replaced by 0.
C10_Witness ==
    /\ functie = "marginale_belasting"
    /\ inkomen = Eenheden(BOX1_TARIEF - 1)
    /\ uitkomst = <<0, 38290 * Denom>>
====
\* C4 (as claimed): a call of any function with a negative income ends in
\* an error and never returns a number.
C4_NegatiefGeweigerd ==
    (inkomen < 0 /\ functie # "geen") => afloop = "fout"

\* the two branches of box1_tarief, written out
Box1_Verwacht(x) ==
    IF x <= Eenheden(BOX1_TARIEF)
    THEN Times(BOX1_SCHIJF_1_PERC, x)
    ELSE Plus(Times(BOX1_SCHIJF_1_PERC, Eenheden(BOX1_TARIEF)),
              Times(BOX1_SCHIJF_2_PERC, x - Eenheden(BOX1_TARIEF)))

\* C5: for every income >= 0 box1_tarief is
\* min(income, BOX1_TARIEF) * BOX1_SCHIJF_1_PERC
\*   + max(income - BOX1_TARIEF, 0) * BOX1_SCHIJF_2_PERC;
\* a unit step of income raises it by at least BOX1_SCHIJF_1_PERC and at
\* most BOX1_SCHIJF_2_PERC (non-decreasing, no jump at the threshold), and
\* box1_tarief(BOX1_TARIEF) = BOX1_TARIEF * BOX1_SCHIJF_1_PERC.
C5_Box1Tarief ==
    (functie = "box1_tarief" /\ inkomen >= 0) =>
        /\ uitkomst = Box1_Verwacht(inkomen)
        /\ LET groei == Minus(box1_tarief(inkomen + Eenheden(1)), uitkomst)
           IN  /\ Leq(Times(BOX1_SCHIJF_1_PERC, Eenheden(1)), groei)
               /\ Leq(groei, Times(BOX1_SCHIJF_2_PERC, Eenheden(1)))
        /\ (inkomen >= 1 => Leq(box1_tarief(inkomen - 1), uitkomst))
        /\ (inkomen = Eenheden(BOX1_TARIEF)
                => uitkomst = Times(BOX1_SCHIJF_1_PERC, Eenheden(BOX1_TARIEF)))

\* C5 witness: box1_tarief has returned for the income half a unit below the
\* threshold, whose unit step crosses it: the growth over that step lies
\* strictly between the two rates.
C5_Witness ==
    /\ functie = "box1_tarief"
    /\ inkomen > Eenheden(BOX1_TARIEF - 1)
    /\ inkomen < Eenheden(BOX1_TARIEF)
    /\ LET groei == Minus(box1_tarief(inkomen + Eenheden(1)), uitkomst)
       IN  /\ Less(Times(BOX1_SCHIJF_1_PERC, Eenheden(1)), groei)
           /\ Less(groei, Times(BOX1_SCHIJF_2_PERC, Eenheden(1)))

\* the forward difference of belasting over the unit step starting at x
Stap1(x) == Minus(belasting(x + Eenheden(1)), belasting(x))

\* C6 (as claimed): marginale_belasting(income) is
\* belasting(income + 1) - belasting(income) for every income >= 0, and the
\* marginal rate of the step from AH_TARIEF_1 - 1 to AH_TARIEF_1 differs
\* from that of the unit step before it and from that of the unit step
\* after it (a spike).
C6_MarginaleSpike ==
    (functie = "marginale_belasting" /\ inkomen >= 0) =>
        /\ uitkomst = Stap1(inkomen)
        /\ (inkomen = Eenheden(AH_TARIEF_1 - 1)
                => /\ uitkomst # Stap1(Eenheden(AH_TARIEF_1 - 2))
                   /\ uitkomst # Stap1(Eenheden(AH_TARIEF_1)))

\* C6 (amended): marginale_belasting(income) is
\* belasting(income + 1) - belasting(income) for every income >= 0; the
\* marginal rate of the step from AH_TARIEF_1 - 1 to AH_TARIEF_1 is higher
\* by AH_PERC than that of the unit step before it and equal to that of the
\* unit step after it: a step up, not a spike.
C6_MarginaleTrede ==
    (functie = "marginale_belasting" /\ inkomen >= 0) =>
        /\ uitkomst = Stap1(inkomen)
        /\ (inkomen = Eenheden(AH_TARIEF_1 - 1)
                => /\ uitkomst # Stap1(Eenheden(AH_TARIEF_1 - 2))
                   /\ uitkomst = Plus(Stap1(Eenheden(AH_TARIEF_1 - 2)),
                                      Times(AH_PERC, Eenheden(1)))
                   /\ uitkomst = Stap1(Eenheden(AH_TARIEF_1)))

\* C6 witness: marginale_belasting(AH_TARIEF_1 - 1) has returned
\* 0.3693 + 0.06095 - 0.29861 = 0.13164.
C6_Witness ==
    /\ functie = "marginale_belasting"
    /\ inkomen = Eenheden(AH_TARIEF_1 - 1)
    /\ uitkomst = <<0, (BOX1_SCHIJF_1_PERC + AH_PERC - AK_SCHIJF_2_PERC) * Denom>>

\* C7: for every income at or above both AH_TARIEF_2 and AK_TARIEF_4 (such
\* as 150000) algemene_heffingskorting and arbeidskorting are 0 and belasting
\* is exactly box1_tarief.
C7_BovenDeKortingen ==
    (inkomen >= Eenheden(AH_TARIEF_2) /\ inkomen >= Eenheden(AK_TARIEF_4)) =>
        /\ (functie = "algemene_heffingskorting" => uitkomst = Zero)
        /\ (functie = "arbeidskorting" => uitkomst = Zero)
        /\ (functie = "belasting" =>
                /\ uitkomst = Box1_Verwacht(inkomen)
                /\ uitkomst = box1_tarief(inkomen))

\* C7 witness: belasting(150000) has returned box1_tarief(150000) =
\* 73031 * 0.3693 + 76969 * 0.4950 = 65070.0033.
C7_Witness ==
    /\ functie = "belasting"
    /\ inkomen = Eenheden(150000)
    /\ uitkomst = <<65070, 330 * Denom>>

\* C8: arbeidskorting has the "-1" offset in its second branch only:
\* AK_SCHIJF_1_PERC * income below AK_TARIEF_1;
\* AK_KORTING_1 + AK_SCHIJF_2_PERC * (income - (AK_TARIEF_1 - 1)) on
\* [AK_TARIEF_1, AK_TARIEF_2), so AK_KORTING_1 + AK_SCHIJF_2_PERC at
\* AK_TARIEF_1; AK_KORTING_2 + AK_SCHIJF_3_PERC * (income - AK_TARIEF_2) on
\* [AK_TARIEF_2, AK_TARIEF_3), so AK_KORTING_2 at AK_TARIEF_2;
\* AK_KORTING_3 - AK_SCHIJF_4_PERC * (income - AK_TARIEF_3) on
\* [AK_TARIEF_3, AK_TARIEF_4), so AK_KORTING_3 at AK_TARIEF_3.
C8_ArbeidskortingTakken ==
    functie = "arbeidskorting" =>
        /\ (inkomen < Eenheden(AK_TARIEF_1)
                => uitkomst = Times(AK_SCHIJF_1_PERC, inkomen))
        /\ (inkomen >= Eenheden(AK_TARIEF_1) /\ inkomen < Eenheden(AK_TARIEF_2)
                => uitkomst = Plus(Bedrag(AK_KORTING_1),
                                   Times(AK_SCHIJF_2_PERC,
                                         inkomen - Eenheden(AK_TARIEF_1 - 1))))
        /\ (inkomen = Eenheden(AK_TARIEF_1)
                => uitkomst = <<AK_KORTING_1, AK_SCHIJF_2_PERC * Denom>>)
        /\ (inkomen >= Eenheden(AK_TARIEF_2) /\ inkomen < Eenheden(AK_TARIEF_3)
                => uitkomst = Plus(Bedrag(AK_KORTING_2),
                                   Times(AK_SCHIJF_3_PERC,
                                         inkomen - Eenheden(AK_TARIEF_2))))
        /\ (inkomen = Eenheden(AK_TARIEF_2) => uitkomst = Bedrag(AK_KORTING_2))
        /\ (inkomen >= Eenheden(AK_TARIEF_3) /\ inkomen < Eenheden(AK_TARIEF_4)
                => uitkomst = Minus(Bedrag(AK_KORTING_3),
                                    Times(AK_SCHIJF_4_PERC,
                                          inkomen - Eenheden(AK_TARIEF_3))))
        /\ (inkomen = Eenheden(AK_TARIEF_3) => uitkomst = Bedrag(AK_KORTING_3))

\* C8 witness: arbeidskorting(AK_TARIEF_2) has returned AK_KORTING_2 exactly.
C8_Witness ==
    /\ functie = "arbeidskorting"
    /\ inkomen = Eenheden(AK_TARIEF_2)
    /\ uitkomst = Bedrag(AK_KORTING_2)

\* a whole number of currency units
HeelInkomen == inkomen % Denom = 0

\* C9 (as claimed): for every whole income >= 0 algemene_heffingskorting
\* lies in [0, AH_KORTING]; in particular it is not negative at
\* AH_TARIEF_2 - 1.
C9_AlgemeneHeffingskortingBereik ==
    (functie = "algemene_heffingskorting" /\ inkomen >= 0 /\ HeelInkomen) =>
        /\ ~Less(uitkomst, Zero)
        /\ Leq(uitkomst, Bedrag(AH_KORTING))

\* C10: for every whole income >= 0, 0 <= marginale_belasting < 1, so
\* belasting is non-decreasing and netto strictly increasing along unit
\* steps; belasting(0) = 0, 0 <= belasting(income) <= income and
\* netto(income) >= 0.
C10_MarginaalTussen0En1 ==
    (inkomen >= 0 /\ HeelInkomen) =>
        /\ (functie = "marginale_belasting" =>
                /\ ~Less(uitkomst, Zero)
                /\ Less(uitkomst, Bedrag(1)))
        /\ (functie = "belasting" =>
                /\ ~Less(uitkomst, Zero)
                /\ Leq(uitkomst, VanInkomen(inkomen))
                /\ Leq(uitkomst, belasting(inkomen + Eenheden(1)))
                /\ (inkomen = 0 => uitkomst = Zero))
        /\ (functie = "netto" =>
                /\ ~Less(uitkomst, Zero)
                /\ Less(uitkomst, netto(inkomen + Eenheden(1)))
                /\ (inkomen = 0 => uitkomst = Zero))

\* C10 witness: marginale_belasting(BOX1_TARIEF - 1) has returned
\* 0.3829: over this step the second bracket starts and the (negative)
\* algemene heffingskorting of -0.0515 is replaced by 0.
C10_Witness ==
    /\ functie = "marginale_belasting"
    /\ inkomen = Eenheden(BOX1_TARIEF - 1)
    /\ uitkomst = <<0, 38290 * Denom>>
====
\* C4 (as claimed): a call of any function with a negative income ends in
\* an error and never returns a number.
C4_NegatiefGeweigerd ==
    (inkomen < 0 /\ functie # "geen") => afloop = "fout"

\* the two branches of box1_tarief, written out
Box1_Verwacht(x) ==
    IF x <= Eenheden(BOX1_TARIEF)
    THEN Times(BOX1_SCHIJF_1_PERC, x)
    ELSE Plus(Times(BOX1_SCHIJF_1_PERC, Eenheden(BOX1_TARIEF)),
              Times(BOX1_SCHIJF_2_PERC, x - Eenheden(BOX1_TARIEF)))

\* C5: for every income >= 0 box1_tarief is
\* min(income, BOX1_TARIEF) * BOX1_SCHIJF_1_PERC
\*   + max(income - BOX1_TARIEF, 0) * BOX1_SCHIJF_2_PERC;
\* a unit step of income raises it by at least BOX1_SCHIJF_1_PERC and at
\* most BOX1_SCHIJF_2_PERC (non-decreasing, no jump at the threshold), and
\* box1_tarief(BOX1_TARIEF) = BOX1_TARIEF * BOX1_SCHIJF_1_PERC.
C5_Box1Tarief ==
    (functie = "box1_tarief" /\ inkomen >= 0) =>
        /\ uitkomst = Box1_Verwacht(inkomen)
        /\ LET groei == Minus(box1_tarief(inkomen + Eenheden(1)), uitkomst)
           IN  /\ Leq(Times(BOX1_SCHIJF_1_PERC, Eenheden(1)), groei)
               /\ Leq(groei, Times(BOX1_SCHIJF_2_PERC, Eenheden(1)))
        /\ (inkomen >= 1 => Leq(box1_tarief(inkomen - 1), uitkomst))
        /\ (inkomen = Eenheden(BOX1_TARIEF)
                => uitkomst = Times(BOX1_SCHIJF_1_PERC, Eenheden(BOX1_TARIEF)))

\* C5 witness: box1_tarief has returned for the income half a unit below the
\* threshold, whose unit step crosses it: the growth over that step lies
\* strictly between the two rates.
C5_Witness ==
    /\ functie = "box1_tarief"
    /\ inkomen > Eenheden(BOX1_TARIEF - 1)
    /\ inkomen < Eenheden(BOX1_TARIEF)
    /\ LET groei == Minus(box1_tarief(inkomen + Eenheden(1)), uitkomst)
       IN  /\ Less(Times(BOX1_SCHIJF_1_PERC, Eenheden(1)), groei)
           /\ Less(groei, Times(BOX1_SCHIJF_2_PERC, Eenheden(1)))

\* the forward difference of belasting over the unit step starting at x
Stap1(x) == Minus(belasting(x + Eenheden(1)), belasting(x))

\* C6 (as claimed): marginale_belasting(income) is
\* belasting(income + 1) - belasting(income) for every income >= 0, and the
\* marginal rate of the step from AH_TARIEF_1 - 1 to AH_TARIEF_1 differs
\* from that of the unit step before it and from that of the unit step
\* after it (a spike).
C6_MarginaleSpike ==
    (functie = "marginale_belasting" /\ inkomen >= 0) =>
        /\ uitkomst = Stap1(inkomen)
        /\ (inkomen = Eenheden(AH_TARIEF_1 - 1)
                => /\ uitkomst # Stap1(Eenheden(AH_TARIEF_1 - 2))
                   /\ uitkomst # Stap1(Eenheden(AH_TARIEF_1)))

\* C6 (amended): marginale_belasting(income) is
\* belasting(income + 1) - belasting(income) for every income >= 0; the
\* marginal rate of the step from AH_TARIEF_1 - 1 to AH_TARIEF_1 is higher
\* by AH_PERC than that of the unit step before it and equal to that of the
\* unit step after it: a step up, not a spike.
C6_MarginaleTrede ==
    (functie = "marginale_belasting" /\ inkomen >= 0) =>
        /\ uitkomst = Stap1(inkomen)
        /\ (inkomen = Eenheden(AH_TARIEF_1 - 1)
                => /\ uitkomst # Stap1(Eenheden(AH_TARIEF_1 - 2))
                   /\ uitkomst = Plus(Stap1(Eenheden(AH_TARIEF_1 - 2)),
                                      Times(AH_PERC, Eenheden(1)))
                   /\ uitkomst = Stap1(Eenheden(AH_TARIEF_1)))

\* C6 witness: marginale_belasting(AH_TARIEF_1 - 1) has returned
\* 0.3693 + 0.06095 - 0.29861 = 0.13164.
C6_Witness ==
    /\ functie = "marginale_belasting"
    /\ inkomen = Eenheden(AH_TARIEF_1 - 1)
    /\ uitkomst = <<0, (BOX1_SCHIJF_1_PERC + AH_PERC - AK_SCHIJF_2_PERC) * Denom>>

\* C7: for every income at or above both AH_TARIEF_2 and AK_TARIEF_4 (such
\* as 150000) algemene_heffingskorting and arbeidskorting are 0 and belasting
\* is exactly box1_tarief.
C7_BovenDeKortingen ==
    (inkomen >= Eenheden(AH_TARIEF_2) /\ inkomen >= Eenheden(AK_TARIEF_4)) =>
        /\ (functie = "algemene_heffingskorting" => uitkomst = Zero)
        /\ (functie = "arbeidskorting" => uitkomst = Zero)
        /\ (functie = "belasting" =>
                /\ uitkomst = Box1_Verwacht(inkomen)
                /\ uitkomst = box1_tarief(inkomen))

\* C7 witness: belasting(150000) has returned box1_tarief(150000) =
\* 73031 * 0.3693 + 76969 * 0.4950 = 65070.0033.
C7_Witness ==
    /\ functie = "belasting"
    /\ inkomen = Eenheden(150000)
    /\ uitkomst = <<65070, 330 * Denom>>

\* C8: arbeidskorting has the "-1" offset in its second branch only:
\* AK_SCHIJF_1_PERC * income below AK_TARIEF_1;
\* AK_KORTING_1 + AK_SCHIJF_2_PERC * (income - (AK_TARIEF_1 - 1)) on
\* [AK_TARIEF_1, AK_TARIEF_2), so AK_KORTING_1 + AK_SCHIJF_2_PERC at
\* AK_TARIEF_1; AK_KORTING_2 + AK_SCHIJF_3_PERC * (income - AK_TARIEF_2) on
\* [AK_TARIEF_2, AK_TARIEF_3), so AK_KORTING_2 at AK_TARIEF_2;
\* AK_KORTING_3 - AK_SCHIJF_4_PERC * (income - AK_TARIEF_3) on
\* [AK_TARIEF_3, AK_TARIEF_4), so AK_KORTING_3 at AK_TARIEF_3.
C8_ArbeidskortingTakken ==
    functie = "arbeidskorting" =>
        /\ (inkomen < Eenheden(AK_TARIEF_1)
                => uitkomst = Times(AK_SCHIJF_1_PERC, inkomen))
        /\ (inkomen >= Eenheden(AK_TARIEF_1) /\ inkomen < Eenheden(AK_TARIEF_2)
                => uitkomst = Plus(Bedrag(AK_KORTING_1),
                                   Times(AK_SCHIJF_2_PERC,
                                         inkomen - Eenheden(AK_TARIEF_1 - 1))))
        /\ (inkomen = Eenheden(AK_TARIEF_1)
                => uitkomst = <<AK_KORTING_1, AK_SCHIJF_2_PERC * Denom>>)
        /\ (inkomen >= Eenheden(AK_TARIEF_2) /\ inkomen < Eenheden(AK_TARIEF_3)
                => uitkomst = Plus(Bedrag(AK_KORTING_2),
                                   Times(AK_SCHIJF_3_PERC,
                                         inkomen - Eenheden(AK_TARIEF_2))))
        /\ (inkomen = Eenheden(AK_TARIEF_2) => uitkomst = Bedrag(AK_KORTING_2))
        /\ (inkomen >= Eenheden(AK_TARIEF_3) /\ inkomen < Eenheden(AK_TARIEF_4)
                => uitkomst = Minus(Bedrag(AK_KORTING_3),
                                    Times(AK_SCHIJF_4_PERC,
                                          inkomen - Eenheden(AK_TARIEF_3))))
        /\ (inkomen = Eenheden(AK_TARIEF_3) => uitkomst = Bedrag(AK_KORTING_3))

\* C8 witness: arbeidskorting(AK_TARIEF_2) has returned AK_KORTING_2 exactly.
C8_Witness ==
    /\ functie = "arbeidskorting"
    /\ inkomen = Eenheden(AK_TARIEF_2)
    /\ uitkomst = Bedrag(AK_KORTING_2)

\* a whole number of currency units
HeelInkomen == inkomen % Denom = 0

\* C9 (as claimed): for every whole income >= 0 algemene_heffingskorting
\* lies in [0, AH_KORTING]; in particular it is not negative at
\* AH_TARIEF_2 - 1.
C9_AlgemeneHeffingskortingBereik ==
    (functie = "algemene_heffingskorting" /\ inkomen >= 0 /\ HeelInkomen) =>
        /\ ~Less(uitkomst, Zero)
        /\ Leq(uitkomst, Bedrag(AH_KORTING))

\* C10: for every whole income >= 0, 0 <= marginale_belasting < 1, so
\* belasting is non-decreasing and netto strictly increasing along unit
\* steps; belasting(0) = 0, 0 <= belasting(income) <= income and
\* netto(income) >= 0.
C10_MarginaalTussen0En1 ==
    (inkomen >= 0 /\ HeelInkomen) =>
        /\ (functie = "marginale_belasting" =>
                /\ ~Less(uitkomst, Zero)
                /\ Less(uitkomst, Bedrag(1)))
        /\ (functie = "belasting" =>
                /\ ~Less(uitkomst, Zero)
                /\ Leq(uitkomst, VanInkomen(inkomen))
                /\ Leq(uitkomst, belasting(inkomen + Eenheden(1)))
                /\ (inkomen = 0 => uitkomst = Zero))
        /\ (functie = "netto" =>
                /\ ~Less(uitkomst, Zero)
                /\ Less(uitkomst, netto(inkomen + Eenheden(1)))
                /\ (inkomen = 0 => uitkomst = Zero))

\* C10 witness: marginale_belasting(BOX1_TARIEF - 1) has returned
\* 0.3829: over this step the second bracket starts and the (negative)
\* algemene heffingskorting of -0.0515 is replaced by 0.
C10_Witness ==
    /\ functie = "marginale_belasting"
    /\ inkomen = Eenheden(BOX1_TARIEF - 1)
    /\ uitkomst = <<0, 38290 * Denom>>
======= the claims 
\* C4 (as claimed): a call of any function with a negative income ends in
\* an error and never returns a number.
C4_NegatiefGeweigerd ==
    (inkomen < 0 /\ functie # "geen") => afloop = "fout"

\* the two branches of box1_tarief, written out
Box1_Verwacht(x) ==
    IF x <= Eenheden(BOX1_TARIEF)
    THEN Times(BOX1_SCHIJF_1_PERC, x)
    ELSE Plus(Times(BOX1_SCHIJF_1_PERC, Eenheden(BOX1_TARIEF)),
              Times(BOX1_SCHIJF_2_PERC, x - Eenheden(BOX1_TARIEF)))

\* C5: for every income >= 0 box1_tarief is
\* min(income, BOX1_TARIEF) * BOX1_SCHIJF_1_PERC
\*   + max(income - BOX1_TARIEF, 0) * BOX1_SCHIJF_2_PERC;
\* a unit step of income raises it by at least BOX1_SCHIJF_1_PERC and at
\* most BOX1_SCHIJF_2_PERC (non-decreasing, no jump at the threshold), and
\* box1_tarief(BOX1_TARIEF) = BOX1_TARIEF * BOX1_SCHIJF_1_PERC.
C5_Box1Tarief ==
    (functie = "box1_tarief" /\ inkomen >= 0) =>
        /\ uitkomst = Box1_Verwacht(inkomen)
        /\ LET groei == Minus(box1_tarief(inkomen + Eenheden(1)), uitkomst)
           IN  /\ Leq(Times(BOX1_SCHIJF_1_PERC, Eenheden(1)), groei)
               /\ Leq(groei, Times(BOX1_SCHIJF_2_PERC, Eenheden(1)))
        /\ (inkomen >= 1 => Leq(box1_tarief(inkomen - 1), uitkomst))
        /\ (inkomen = Eenheden(BOX1_TARIEF)
                => uitkomst = Times(BOX1_SCHIJF_1_PERC, Eenheden(BOX1_TARIEF)))

\* C5 witness: box1_tarief has returned for the income half a unit below the
\* threshold, whose unit step crosses it: the growth over that step lies
\* strictly between the two rates.
C5_Witness ==
    /\ functie = "box1_tarief"
    /\ inkomen > Eenheden(BOX1_TARIEF - 1)
    /\ inkomen < Eenheden(BOX1_TARIEF)
    /\ LET groei == Minus(box1_tarief(inkomen + Eenheden(1)), uitkomst)
       IN  /\ Less(Times(BOX1_SCHIJF_1_PERC, Eenheden(1)), groei)
           /\ Less(groei, Times(BOX1_SCHIJF_2_PERC, Eenheden(1)))

\* the forward difference of belasting over the unit step starting at x
Stap1(x) == Minus(belasting(x + Eenheden(1)), belasting(x))

\* C6 (as claimed): marginale_belasting(income) is
\* belasting(income + 1) - belasting(income) for every income >= 0, and the
\* marginal rate of the step from AH_TARIEF_1 - 1 to AH_TARIEF_1 differs
\* from that of the unit step before it and from that of the unit step
\* after it (a spike).
C6_MarginaleSpike ==
    (functie = "marginale_belasting" /\ inkomen >= 0) =>
        /\ uitkomst = Stap1(inkomen)
        /\ (inkomen = Eenheden(AH_TARIEF_1 - 1)
                => /\ uitkomst # Stap1(Eenheden(AH_TARIEF_1 - 2))
                   /\ uitkomst # Stap1(Eenheden(AH_TARIEF_1)))

\* C6 (amended): marginale_belasting(income) is
\* belasting(income + 1) - belasting(income) for every income >= 0; the
\* marginal rate of the step from AH_TARIEF_1 - 1 to AH_TARIEF_1 is higher
\* by AH_PERC than that of the unit step before it and equal to that of the
\* unit step after it: a step up, not a spike.
C6_MarginaleTrede ==
    (functie = "marginale_belasting" /\ inkomen >= 0) =>
        /\ uitkomst = Stap1(inkomen)
        /\ (inkomen = Eenheden(AH_TARIEF_1 - 1)
                => /\ uitkomst # Stap1(Eenheden(AH_TARIEF_1 - 2))
                   /\ uitkomst = Plus(Stap1(Eenheden(AH_TARIEF_1 - 2)),
                                      Times(AH_PERC, Eenheden(1)))
                   /\ uitkomst = Stap1(Eenheden(AH_TARIEF_1)))

\* C6 witness: marginale_belasting(AH_TARIEF_1 - 1) has returned
\* 0.3693 + 0.06095 - 0.29861 = 0.13164.
C6_Witness ==
    /\ functie = "marginale_belasting"
    /\ inkomen = Eenheden(AH_TARIEF_1 - 1)
    /\ uitkomst = <<0, (BOX1_SCHIJF_1_PERC + AH_PERC - AK_SCHIJF_2_PERC) * Denom>>

\* C7: for every income at or above both AH_TARIEF_2 and AK_TARIEF_4 (such
\* as 150000) algemene_heffingskorting and arbeidskorting are 0 and belasting
\* is exactly box1_tarief.
C7_BovenDeKortingen ==
    (inkomen >= Eenheden(AH_TARIEF_2) /\ inkomen >= Eenheden(AK_TARIEF_4)) =>
        /\ (functie = "algemene_heffingskorting" => uitkomst = Zero)
        /\ (functie = "arbeidskorting" => uitkomst = Zero)
        /\ (functie = "belasting" =>
                /\ uitkomst = Box1_Verwacht(inkomen)
                /\ uitkomst = box1_tarief(inkomen))

\* C7 witness: belasting(150000) has returned box1_tarief(150000) =
\* 73031 * 0.3693 + 76969 * 0.4950 = 65070.0033.
C7_Witness ==
    /\ functie = "belasting"
    /\ inkomen = Eenheden(150000)
    /\ uitkomst = <<65070, 330 * Denom>>

\* C8: arbeidskorting has the "-1" offset in its second branch only:
\* AK_SCHIJF_1_PERC * income below AK_TARIEF_1;
\* AK_KORTING_1 + AK_SCHIJF_2_PERC * (income - (AK_TARIEF_1 - 1)) on
\* [AK_TARIEF_1, AK_TARIEF_2), so AK_KORTING_1 + AK_SCHIJF_2_PERC at
\* AK_TARIEF_1; AK_KORTING_2 + AK_SCHIJF_3_PERC * (income - AK_TARIEF_2) on
\* [AK_TARIEF_2, AK_TARIEF_3), so AK_KORTING_2 at AK_TARIEF_2;
\* AK_KORTING_3 - AK_SCHIJF_4_PERC * (income - AK_TARIEF_3) on
\* [AK_TARIEF_3, AK_TARIEF_4), so AK_KORTING_3 at AK_TARIEF_3.
C8_ArbeidskortingTakken ==
    functie = "arbeidskorting" =>
        /\ (inkomen < Eenheden(AK_TARIEF_1)
                => uitkomst = Times(AK_SCHIJF_1_PERC, inkomen))
        /\ (inkomen >= Eenheden(AK_TARIEF_1) /\ inkomen < Eenheden(AK_TARIEF_2)
                => uitkomst = Plus(Bedrag(AK_KORTING_1),
                                   Times(AK_SCHIJF_2_PERC,
                                         inkomen - Eenheden(AK_TARIEF_1 - 1))))
        /\ (inkomen = Eenheden(AK_TARIEF_1)
                => uitkomst = <<AK_KORTING_1, AK_SCHIJF_2_PERC * Denom>>)
        /\ (inkomen >= Eenheden(AK_TARIEF_2) /\ inkomen < Eenheden(AK_TARIEF_3)
                => uitkomst = Plus(Bedrag(AK_KORTING_2),
                                   Times(AK_SCHIJF_3_PERC,
                                         inkomen - Eenheden(AK_TARIEF_2))))
        /\ (inkomen = Eenheden(AK_TARIEF_2) => uitkomst = Bedrag(AK_KORTING_2))
        /\ (inkomen >= Eenheden(AK_TARIEF_3) /\ inkomen < Eenheden(AK_TARIEF_4)
                => uitkomst = Minus(Bedrag(AK_KORTING_3),
                                    Times(AK_SCHIJF_4_PERC,
                                          inkomen - Eenheden(AK_TARIEF_3))))
        /\ (inkomen = Eenheden(AK_TARIEF_3) => uitkomst = Bedrag(AK_KORTING_3))

\* C8 witness: arbeidskorting(AK_TARIEF_2) has returned AK_KORTING_2 exactly.
C8_Witness ==
    /\ functie = "arbeidskorting"
    /\ inkomen = Eenheden(AK_TARIEF_2)
    /\ uitkomst = Bedrag(AK_KORTING_2)

\* a whole number of currency units
HeelInkomen == inkomen % Denom = 0

\* C9 (as claimed): for every whole income >= 0 algemene_heffingskorting
\* lies in [0, AH_KORTING]; in particular it is not negative at
\* AH_TARIEF_2 - 1.
C9_AlgemeneHeffingskortingBereik ==
    (functie = "algemene_heffingskorting" /\ inkomen >= 0 /\ HeelInkomen) =>
        /\ ~Less(uitkomst, Zero)
        /\ Leq(uitkomst, Bedrag(AH_KORTING))

\* C10: for every whole income >= 0, 0 <= marginale_belasting < 1, so
\* belasting is non-decreasing and netto strictly increasing along unit
\* steps; belasting(0) = 0, 0 <= belasting(income) <= income and
\* netto(income) >= 0.
C10_MarginaalTussen0En1 ==
    (inkomen >= 0 /\ HeelInkomen) =>
        /\ (functie = "marginale_belasting" =>
                /\ ~Less(uitkomst, Zero)
                /\ Less(uitkomst, Bedrag(1)))
        /\ (functie = "belasting" =>
                /\ ~Less(uitkomst, Zero)
                /\ Leq(uitkomst, VanInkomen(inkomen))
                /\ Leq(uitkomst, belasting(inkomen + Eenheden(1)))
                /\ (inkomen = 0 => uitkomst = Zero))
        /\ (functie = "netto" =>
                /\ ~Less(uitkomst, Zero)
                /\ Less(uitkomst, netto(inkomen + Eenheden(1)))
                /\ (inkomen = 0 => uitkomst = Zero))

\* C10 witness: marginale_belasting(BOX1_TARIEF - 1) has returned
\* 0.3829: over this step the second bracket starts and the (negative)
\* algemene heffingskorting of -0.0515 is replaced by 0.
C10_Witness ==
    /\ functie = "marginale_belasting"
    /\ inkomen = Eenheden(BOX1_TARIEF - 1)
    /\ uitkomst = <<0, 38290 * Denom>>
====
\* C4 (as claimed): a call of any function with a negative income ends in
\* an error and never returns a number.
C4_NegatiefGeweigerd ==
    (inkomen < 0 /\ functie # "geen") => afloop = "fout"

\* the two branches of box1_tarief, written out
Box1_Verwacht(x) ==
    IF x <= Eenheden(BOX1_TARIEF)
    THEN Times(BOX1_SCHIJF_1_PERC, x)
    ELSE Plus(Times(BOX1_SCHIJF_1_PERC, Eenheden(BOX1_TARIEF)),
              Times(BOX1_SCHIJF_2_PERC, x - Eenheden(BOX1_TARIEF)))

\* C5: for every income >= 0 box1_tarief is
\* min(income, BOX1_TARIEF) * BOX1_SCHIJF_1_PERC
\*   + max(income - BOX1_TARIEF, 0) * BOX1_SCHIJF_2_PERC;
\* a unit step of income raises it by at least BOX1_SCHIJF_1_PERC and at
\* most BOX1_SCHIJF_2_PERC (non-decreasing, no jump at the threshold), and
\* box1_tarief(BOX1_TARIEF) = BOX1_TARIEF * BOX1_SCHIJF_1_PERC.
C5_Box1Tarief ==
    (functie = "box1_tarief" /\ inkomen >= 0) =>
        /\ uitkomst = Box1_Verwacht(inkomen)
        /\ LET groei == Minus(box1_tarief(inkomen + Eenheden(1)), uitkomst)
           IN  /\ Leq(Times(BOX1_SCHIJF_1_PERC, Eenheden(1)), groei)
               /\ Leq(groei, Times(BOX1_SCHIJF_2_PERC, Eenheden(1)))
        /\ (inkomen >= 1 => Leq(box1_tarief(inkomen - 1), uitkomst))
        /\ (inkomen = Eenheden(BOX1_TARIEF)
                => uitkomst = Times(BOX1_SCHIJF_1_PERC, Eenheden(BOX1_TARIEF)))

\* C5 witness: box1_tarief has returned for the income half a unit below the
\* threshold, whose unit step crosses it: the growth over that step lies
\* strictly between the two rates.
C5_Witness ==
    /\ functie = "box1_tarief"
    /\ inkomen > Eenheden(BOX1_TARIEF - 1)
    /\ inkomen < Eenheden(BOX1_TARIEF)
    /\ LET groei == Minus(box1_tarief(inkomen + Eenheden(1)), uitkomst)
       IN  /\ Less(Times(BOX1_SCHIJF_1_PERC, Eenheden(1)), groei)
           /\ Less(groei, Times(BOX1_SCHIJF_2_PERC, Eenheden(1)))

\* the forward difference of belasting over the unit step starting at x
Stap1(x) == Minus(belasting(x + Eenheden(1)), belasting(x))

\* C6 (as claimed): marginale_belasting(income) is
\* belasting(income + 1) - belasting(income) for every income >= 0, and the
\* marginal rate of the step from AH_TARIEF_1 - 1 to AH_TARIEF_1 differs
\* from that of the unit step before it and from that of the unit step
\* after it (a spike).
C6_MarginaleSpike ==
    (functie = "marginale_belasting" /\ inkomen >= 0) =>
        /\ uitkomst = Stap1(inkomen)
        /\ (inkomen = Eenheden(AH_TARIEF_1 - 1)
                => /\ uitkomst # Stap1(Eenheden(AH_TARIEF_1 - 2))
                   /\ uitkomst # Stap1(Eenheden(AH_TARIEF_1)))

\* C6 (amended): marginale_belasting(income) is
\* belasting(income + 1) - belasting(income) for every income >= 0; the
\* marginal rate of the step from AH_TARIEF_1 - 1 to AH_TARIEF_1 is higher
\* by AH_PERC than that of the unit step before it and equal to that of the
\* unit step after it: a step up, not a spike.
C6_MarginaleTrede ==
    (functie = "marginale_belasting" /\ inkomen >= 0) =>
        /\ uitkomst = Stap1(inkomen)
        /\ (inkomen = Eenheden(AH_TARIEF_1 - 1)
                => /\ uitkomst # Stap1(Eenheden(AH_TARIEF_1 - 2))
                   /\ uitkomst = Plus(Stap1(Eenheden(AH_TARIEF_1 - 2)),
                                      Times(AH_PERC, Eenheden(1)))
                   /\ uitkomst = Stap1(Eenheden(AH_TARIEF_1)))

\* C6 witness: marginale_belasting(AH_TARIEF_1 - 1) has returned
\* 0.3693 + 0.06095 - 0.29861 = 0.13164.
C6_Witness ==
    /\ functie = "marginale_belasting"
    /\ inkomen = Eenheden(AH_TARIEF_1 - 1)
    /\ uitkomst = <<0, (BOX1_SCHIJF_1_PERC + AH_PERC - AK_SCHIJF_2_PERC) * Denom>>

\* C7: for every income at or above both AH_TARIEF_2 and AK_TARIEF_4 (such
\* as 150000) algemene_heffingskorting and arbeidskorting are 0 and belasting
\* is exactly box1_tarief.
C7_BovenDeKortingen ==
    (inkomen >= Eenheden(AH_TARIEF_2) /\ inkomen >= Eenheden(AK_TARIEF_4)) =>
        /\ (functie = "algemene_heffingskorting" => uitkomst = Zero)
        /\ (functie = "arbeidskorting" => uitkomst = Zero)
        /\ (functie = "belasting" =>
                /\ uitkomst = Box1_Verwacht(inkomen)
                /\ uitkomst = box1_tarief(inkomen))

\* C7 witness: belasting(150000) has returned box1_tarief(150000) =
\* 73031 * 0.3693 + 76969 * 0.4950 = 65070.0033.
C7_Witness ==
    /\ functie = "belasting"
    /\ inkomen = Eenheden(150000)
    /\ uitkomst = <<65070, 330 * Denom>>

\* C8: arbeidskorting has the "-1" offset in its second branch only:
\* AK_SCHIJF_1_PERC * income below AK_TARIEF_1;
\* AK_KORTING_1 + AK_SCHIJF_2_PERC * (income - (AK_TARIEF_1 - 1)) on
\* [AK_TARIEF_1, AK_TARIEF_2), so AK_KORTING_1 + AK_SCHIJF_2_PERC at
\* AK_TARIEF_1; AK_KORTING_2 + AK_SCHIJF_3_PERC * (income - AK_TARIEF_2) on
\* [AK_TARIEF_2, AK_TARIEF_3), so AK_KORTING_2 at AK_TARIEF_2;
\* AK_KORTING_3 - AK_SCHIJF_4_PERC * (income - AK_TARIEF_3) on
\* [AK_TARIEF_3, AK_TARIEF_4), so AK_KORTING_3 at AK_TARIEF_3.
C8_ArbeidskortingTakken ==
    functie = "arbeidskorting" =>
        /\ (inkomen < Eenheden(AK_TARIEF_1)
                => uitkomst = Times(AK_SCHIJF_1_PERC, inkomen))
        /\ (inkomen >= Eenheden(AK_TARIEF_1) /\ inkomen < Eenheden(AK_TARIEF_2)
                => uitkomst = Plus(Bedrag(AK_KORTING_1),
                                   Times(AK_SCHIJF_2_PERC,
                                         inkomen - Eenheden(AK_TARIEF_1 - 1))))
        /\ (inkomen = Eenheden(AK_TARIEF_1)
                => uitkomst = <<AK_KORTING_1, AK_SCHIJF_2_PERC * Denom>>)
        /\ (inkomen >= Eenheden(AK_TARIEF_2) /\ inkomen < Eenheden(AK_TARIEF_3)
                => uitkomst = Plus(Bedrag(AK_KORTING_2),
                                   Times(AK_SCHIJF_3_PERC,
                                         inkomen - Eenheden(AK_TARIEF_2))))
        /\ (inkomen = Eenheden(AK_TARIEF_2) => uitkomst = Bedrag(AK_KORTING_2))
        /\ (inkomen >= Eenheden(AK_TARIEF_3) /\ inkomen < Eenheden(AK_TARIEF_4)
                => uitkomst = Minus(Bedrag(AK_KORTING_3),
                                    Times(AK_SCHIJF_4_PERC,
                                          inkomen - Eenheden(AK_TARIEF_3))))
        /\ (inkomen = Eenheden(AK_TARIEF_3) => uitkomst = Bedrag(AK_KORTING_3))

\* C8 witness: arbeidskorting(AK_TARIEF_2) has returned AK_KORTING_2 exactly.
C8_Witness ==
    /\ functie = "arbeidskorting"
    /\ inkomen = Eenheden(AK_TARIEF_2)
    /\ uitkomst = Bedrag(AK_KORTING_2)

\* a whole number of currency units
HeelInkomen == inkomen % Denom = 0

\* C9 (as claimed): for every whole income >= 0 algemene_heffingskorting
\* lies in [0, AH_KORTING]; in particular it is not negative at
\* AH_TARIEF_2 - 1.
C9_AlgemeneHeffingskortingBereik ==
    (functie = "algemene_heffingskorting" /\ inkomen >= 0 /\ HeelInkomen) =>
        /\ ~Less(uitkomst, Zero)
        /\ Leq(uitkomst, Bedrag(AH_KORTING))

\* C10: for every whole income >= 0, 0 <= marginale_belasting < 1, so
\* belasting is non-decreasing and netto strictly increasing along unit
\* steps; belasting(0) = 0, 0 <= belasting(income) <= income and
\* netto(income) >= 0.
C10_MarginaalTussen0En1 ==
    (inkomen >= 0 /\ HeelInkomen) =>
        /\ (functie = "marginale_belasting" =>
                /\ ~Less(uitkomst, Zero)
                /\ Less(uitkomst, Bedrag(1)))
        /\ (functie = "belasting" =>
                /\ ~Less(uitkomst, Zero)
                /\ Leq(uitkomst, VanInkomen(inkomen))
                /\ Leq(uitkomst, belasting(inkomen + Eenheden(1)))
                /\ (inkomen = 0 => uitkomst = Zero))
        /\ (functie = "netto" =>
                /\ ~Less(uitkomst, Zero)
                /\ Less(uitkomst, netto(inkomen + Eenheden(1)))
                /\ (inkomen = 0 => uitkomst = Zero))

\* C10 witness: marginale_belasting(BOX1_TARIEF - 1) has returned
\* 0.3829: over this step the second bracket starts and the (negative)
\* algemene heffingskorting of -0.0515 is replaced by 0.
C10_Witness ==
    /\ functie = "marginale_belasting"
    /\ inkomen = Eenheden(BOX1_TARIEF - 1)
    /\ uitkomst = <<0, 38290 * Denom>>
====
\* C4 (as claimed): a call of any function with a negative income ends in
\* an error and never returns a number.
C4_NegatiefGeweigerd ==
    (inkomen < 0 /\ functie # "geen") => afloop = "fout"

\* the two branches of box1_tarief, written out
Box1_Verwacht(x) ==
    IF x <= Eenheden(BOX1_TARIEF)
    THEN Times(BOX1_SCHIJF_1_PERC, x)
    ELSE Plus(Times(BOX1_SCHIJF_1_PERC, Eenheden(BOX1_TARIEF)),
              Times(BOX1_SCHIJF_2_PERC, x - Eenheden(BOX1_TARIEF)))

\* C5: for every income >= 0 box1_tarief is
\* min(income, BOX1_TARIEF) * BOX1_SCHIJF_1_PERC
\*   + max(income - BOX1_TARIEF, 0) * BOX1_SCHIJF_2_PERC;
\* a unit step of income raises it by at least BOX1_SCHIJF_1_PERC and at
\* most BOX1_SCHIJF_2_PERC (non-decreasing, no jump at the threshold), and
\* box1_tarief(BOX1_TARIEF) = BOX1_TARIEF * BOX1_SCHIJF_1_PERC.
C5_Box1Tarief ==
    (functie = "box1_tarief" /\ inkomen >= 0) =>
        /\ uitkomst = Box1_Verwacht(inkomen)
        /\ LET groei == Minus(box1_tarief(inkomen + Eenheden(1)), uitkomst)
           IN  /\ Leq(Times(BOX1_SCHIJF_1_PERC, Eenheden(1)), groei)
               /\ Leq(groei, Times(BOX1_SCHIJF_2_PERC, Eenheden(1)))
        /\ (inkomen >= 1 => Leq(box1_tarief(inkomen - 1), uitkomst))
        /\ (inkomen = Eenheden(BOX1_TARIEF)
                => uitkomst = Times(BOX1_SCHIJF_1_PERC, Eenheden(BOX1_TARIEF)))

\* C5 witness: box1_tarief has returned for the income half a unit below the
\* threshold, whose unit step crosses it: the growth over that step lies
\* strictly between the two rates.
C5_Witness ==
    /\ functie = "box1_tarief"
    /\ inkomen > Eenheden(BOX1_TARIEF - 1)
    /\ inkomen < Eenheden(BOX1_TARIEF)
    /\ LET groei == Minus(box1_tarief(inkomen + Eenheden(1)), uitkomst)
       IN  /\ Less(Times(BOX1_SCHIJF_1_PERC, Eenheden(1)), groei)
           /\ Less(groei, Times(BOX1_SCHIJF_2_PERC, Eenheden(1)))

\* the forward difference of belasting over the unit step starting at x
Stap1(x) == Minus(belasting(x + Eenheden(1)), belasting(x))

\* C6 (as claimed): marginale_belasting(income) is
\* belasting(income + 1) - belasting(income) for every income >= 0, and the
\* marginal rate of the step from AH_TARIEF_1 - 1 to AH_TARIEF_1 differs
\* from that of the unit step before it and from that of the unit step
\* after it (a spike).
C6_MarginaleSpike ==
    (functie = "marginale_belasting" /\ inkomen >= 0) =>
        /\ uitkomst = Stap1(inkomen)
        /\ (inkomen = Eenheden(AH_TARIEF_1 - 1)
                => /\ uitkomst # Stap1(Eenheden(AH_TARIEF_1 - 2))
                   /\ uitkomst # Stap1(Eenheden(AH_TARIEF_1)))

\* C6 (amended): marginale_belasting(income) is
\* belasting(income + 1) - belasting(income) for every income >= 0; the
\* marginal rate of the step from AH_TARIEF_1 - 1 to AH_TARIEF_1 is higher
\* by AH_PERC than that of the unit step before it and equal to that of the
\* unit step after it: a step up, not a spike.
C6_MarginaleTrede ==
    (functie = "marginale_belasting" /\ inkomen >= 0) =>
        /\ uitkomst = Stap1(inkomen)
        /\ (inkomen = Eenheden(AH_TARIEF_1 - 1)
                => /\ uitkomst # Stap1(Eenheden(AH_TARIEF_1 - 2))
                   /\ uitkomst = Plus(Stap1(Eenheden(AH_TARIEF_1 - 2)),
                                      Times(AH_PERC, Eenheden(1)))
                   /\ uitkomst = Stap1(Eenheden(AH_TARIEF_1)))

\* C6 witness: marginale_belasting(AH_TARIEF_1 - 1) has returned
\* 0.3693 + 0.06095 - 0.29861 = 0.13164.
C6_Witness ==
    /\ functie = "marginale_belasting"
    /\ inkomen = Eenheden(AH_TARIEF_1 - 1)
    /\ uitkomst = <<0, (BOX1_SCHIJF_1_PERC + AH_PERC - AK_SCHIJF_2_PERC) * Denom>>

\* C7: for every income at or above both AH_TARIEF_2 and AK_TARIEF_4 (such
\* as 150000) algemene_heffingskorting and arbeidskorting are 0 and belasting
\* is exactly box1_tarief.
C7_BovenDeKortingen ==
    (inkomen >= Eenheden(AH_TARIEF_2) /\ inkomen >= Eenheden(AK_TARIEF_4)) =>
        /\ (functie = "algemene_heffingskorting" => uitkomst = Zero)
        /\ (functie = "arbeidskorting" => uitkomst = Zero)
        /\ (functie = "belasting" =>
                /\ uitkomst = Box1_Verwacht(inkomen)
                /\ uitkomst = box1_tarief(inkomen))

\* C7 witness: belasting(150000) has returned box1_tarief(150000) =
\* 73031 * 0.3693 + 76969 * 0.4950 = 65070.0033.
C7_Witness ==
    /\ functie = "belasting"
    /\ inkomen = Eenheden(150000)
    /\ uitkomst = <<65070, 330 * Denom>>

\* C8: arbeidskorting has the "-1" offset in its second branch only:
\* AK_SCHIJF_1_PERC * income below AK_TARIEF_1;
\* AK_KORTING_1 + AK_SCHIJF_2_PERC * (income - (AK_TARIEF_1 - 1)) on
\* [AK_TARIEF_1, AK_TARIEF_2), so AK_KORTING_1 + AK_SCHIJF_2_PERC at
\* AK_TARIEF_1; AK_KORTING_2 + AK_SCHIJF_3_PERC * (income - AK_TARIEF_2) on
\* [AK_TARIEF_2, AK_TARIEF_3), so AK_KORTING_2 at AK_TARIEF_2;
\* AK_KORTING_3 - AK_SCHIJF_4_PERC * (income - AK_TARIEF_3) on
\* [AK_TARIEF_3, AK_TARIEF_4), so AK_KORTING_3 at AK_TARIEF_3.
C8_ArbeidskortingTakken ==
    functie = "arbeidskorting" =>
        /\ (inkomen < Eenheden(AK_TARIEF_1)
                => uitkomst = Times(AK_SCHIJF_1_PERC, inkomen))
        /\ (inkomen >= Eenheden(AK_TARIEF_1) /\ inkomen < Eenheden(AK_TARIEF_2)
                => uitkomst = Plus(Bedrag(AK_KORTING_1),
                                   Times(AK_SCHIJF_2_PERC,
                                         inkomen - Eenheden(AK_TARIEF_1 - 1))))
        /\ (inkomen = Eenheden(AK_TARIEF_1)
                => uitkomst = <<AK_KORTING_1, AK_SCHIJF_2_PERC * Denom>>)
        /\ (inkomen >= Eenheden(AK_TARIEF_2) /\ inkomen < Eenheden(AK_TARIEF_3)
                => uitkomst = Plus(Bedrag(AK_KORTING_2),
                                   Times(AK_SCHIJF_3_PERC,
                                         inkomen - Eenheden(AK_TARIEF_2))))
        /\ (inkomen = Eenheden(AK_TARIEF_2) => uitkomst = Bedrag(AK_KORTING_2))
        /\ (inkomen >= Eenheden(AK_TARIEF_3) /\ inkomen < Eenheden(AK_TARIEF_4)
                => uitkomst = Minus(Bedrag(AK_KORTING_3),
                                    Times(AK_SCHIJF_4_PERC,
                                          inkomen - Eenheden(AK_TARIEF_3))))
        /\ (inkomen = Eenheden(AK_TARIEF_3) => uitkomst = Bedrag(AK_KORTING_3))

\* C8 witness: arbeidskorting(AK_TARIEF_2) has returned AK_KORTING_2 exactly.
C8_Witness ==
    /\ functie = "arbeidskorting"
    /\ inkomen = Eenheden(AK_TARIEF_2)
    /\ uitkomst = Bedrag(AK_KORTING_2)

\* a whole number of currency units
HeelInkomen == inkomen % Denom = 0

\* C9 (as claimed): for every whole income >= 0 algemene_heffingskorting
\* lies in [0, AH_KORTING]; in particular it is not negative at
\* AH_TARIEF_2 - 1.
C9_AlgemeneHeffingskortingBereik ==
    (functie = "algemene_heffingskorting" /\ inkomen >= 0 /\ HeelInkomen) =>
        /\ ~Less(uitkomst, Zero)
        /\ Leq(uitkomst, Bedrag(AH_KORTING))

\* C10: for every whole income >= 0, 0 <= marginale_belasting < 1, so
\* belasting is non-decreasing and netto strictly increasing along unit
\* steps; belasting(0) = 0, 0 <= belasting(income) <= income and
\* netto(income) >= 0.
C10_MarginaalTussen0En1 ==
    (inkomen >= 0 /\ HeelInkomen) =>
        /\ (functie = "marginale_belasting" =>
                /\ ~Less(uitkomst, Zero)
                /\ Less(uitkomst, Bedrag(1)))
        /\ (functie = "belasting" =>
                /\ ~Less(uitkomst, Zero)
                /\ Leq(uitkomst, VanInkomen(inkomen))
                /\ Leq(uitkomst, belasting(inkomen + Eenheden(1)))
                /\ (inkomen = 0 => uitkomst = Zero))
        /\ (functie = "netto" =>
                /\ ~Less(uitkomst, Zero)
                /\ Less(uitkomst, netto(inkomen + Eenheden(1)))
                /\ (inkomen = 0 => uitkomst = Zero))

\* C10 witness: marginale_belasting(BOX1_TARIEF - 1) has returned
\* 0.3829: over this step the second bracket starts and the (negative)
\* algemene heffingskorting of -0.0515 is replaced by 0.
C10_Witness ==
    /\ functie = "marginale_belasting"
    /\ inkomen = Eenheden(BOX1_TARIEF - 1)
    /\ uitkomst = <<0, 38290 * Denom>>
====
\* C4 (as claimed): a call of any function with a negative income ends in
\* an error and never returns a number.
C4_NegatiefGeweigerd ==
    (inkomen < 0 /\ functie # "geen") => afloop = "fout"

\* the two branches of box1_tarief, written out
Box1_Verwacht(x) ==
    IF x <= Eenheden(BOX1_TARIEF)
    THEN Times(BOX1_SCHIJF_1_PERC, x)
    ELSE Plus(Times(BOX1_SCHIJF_1_PERC, Eenheden(BOX1_TARIEF)),
              Times(BOX1_SCHIJF_2_PERC, x - Eenheden(BOX1_TARIEF)))

\* C5: for every income >= 0 box1_tarief is
\* min(income, BOX1_TARIEF) * BOX1_SCHIJF_1_PERC
\*   + max(income - BOX1_TARIEF, 0) * BOX1_SCHIJF_2_PERC;
\* a unit step of income raises it by at least BOX1_SCHIJF_1_PERC and at
\* most BOX1_SCHIJF_2_PERC (non-decreasing, no jump at the threshold), and
\* box1_tarief(BOX1_TARIEF) = BOX1_TARIEF * BOX1_SCHIJF_1_PERC.
C5_Box1Tarief ==
    (functie = "box1_tarief" /\ inkomen >= 0) =>
        /\ uitkomst = Box1_Verwacht(inkomen)
        /\ LET groei == Minus(box1_tarief(inkomen + Eenheden(1)), uitkomst)
           IN  /\ Leq(Times(BOX1_SCHIJF_1_PERC, Eenheden(1)), groei)
               /\ Leq(groei, Times(BOX1_SCHIJF_2_PERC, Eenheden(1)))
        /\ (inkomen >= 1 => Leq(box1_tarief(inkomen - 1), uitkomst))
        /\ (inkomen = Eenheden(BOX1_TARIEF)
                => uitkomst = Times(BOX1_SCHIJF_1_PERC, Eenheden(BOX1_TARIEF)))

\* C5 witness: box1_tarief has returned for the income half a unit below the
\* threshold, whose unit step crosses it: the growth over that step lies
\* strictly between the two rates.
C5_Witness ==
    /\ functie = "box1_tarief"
    /\ inkomen > Eenheden(BOX1_TARIEF - 1)
    /\ inkomen < Eenheden(BOX1_TARIEF)
    /\ LET groei == Minus(box1_tarief(inkomen + Eenheden(1)), uitkomst)
       IN  /\ Less(Times(BOX1_SCHIJF_1_PERC, Eenheden(1)), groei)
           /\ Less(groei, Times(BOX1_SCHIJF_2_PERC, Eenheden(1)))

\* the forward difference of belasting over the unit step starting at x
Stap1(x) == Minus(belasting(x + Eenheden(1)), belasting(x))

\* C6 (as claimed): marginale_belasting(income) is
\* belasting(income + 1) - belasting(income) for every income >= 0, and the
\* marginal rate of the step from AH_TARIEF_1 - 1 to AH_TARIEF_1 differs
\* from that of the unit step before it and from that of the unit step
\* after it (a spike).
C6_MarginaleSpike ==
    (functie = "marginale_belasting" /\ inkomen >= 0) =>
        /\ uitkomst = Stap1(inkomen)
        /\ (inkomen = Eenheden(AH_TARIEF_1 - 1)
                => /\ uitkomst # Stap1(Eenheden(AH_TARIEF_1 - 2))
                   /\ uitkomst # Stap1(Eenheden(AH_TARIEF_1)))

\* C6 (amended): marginale_belasting(income) is
\* belasting(income + 1) - belasting(income) for every income >= 0; the
\* marginal rate of the step from AH_TARIEF_1 - 1 to AH_TARIEF_1 is higher
\* by AH_PERC than that of the unit step before it and equal to that of the
\* unit step after it: a step up, not a spike.
C6_MarginaleTrede ==
    (functie = "marginale_belasting" /\ inkomen >= 0) =>
        /\ uitkomst = Stap1(inkomen)
        /\ (inkomen = Eenheden(AH_TARIEF_1 - 1)
                => /\ uitkomst # Stap1(Eenheden(AH_TARIEF_1 - 2))
                   /\ uitkomst = Plus(Stap1(Eenheden(AH_TARIEF_1 - 2)),
                                      Times(AH_PERC, Eenheden(1)))
                   /\ uitkomst = Stap1(Eenheden(AH_TARIEF_1)))

\* C6 witness: marginale_belasting(AH_TARIEF_1 - 1) has returned
\* 0.3693 + 0.06095 - 0.29861 = 0.13164.
C6_Witness ==
    /\ functie = "marginale_belasting"
    /\ inkomen = Eenheden(AH_TARIEF_1 - 1)
    /\ uitkomst = <<0, (BOX1_SCHIJF_1_PERC + AH_PERC - AK_SCHIJF_2_PERC) * Denom>>

\* C7: for every income at or above both AH_TARIEF_2 and AK_TARIEF_4 (such
\* as 150000) algemene_heffingskorting and arbeidskorting are 0 and belasting
\* is exactly box1_tarief.
C7_BovenDeKortingen ==
    (inkomen >= Eenheden(AH_TARIEF_2) /\ inkomen >= Eenheden(AK_TARIEF_4)) =>
        /\ (functie = "algemene_heffingskorting" => uitkomst = Zero)
        /\ (functie = "arbeidskorting" => uitkomst = Zero)
        /\ (functie = "belasting" =>
                /\ uitkomst = Box1_Verwacht(inkomen)
                /\ uitkomst = box1_tarief(inkomen))

\* C7 witness: belasting(150000) has returned box1_tarief(150000) =
\* 73031 * 0.3693 + 76969 * 0.4950 = 65070.0033.
C7_Witness ==
    /\ functie = "belasting"
    /\ inkomen = Eenheden(150000)
    /\ uitkomst = <<65070, 330 * Denom>>

\* C8: arbeidskorting has the "-1" offset in its second branch only:
\* AK_SCHIJF_1_PERC * income below AK_TARIEF_1;
\* AK_KORTING_1 + AK_SCHIJF_2_PERC * (income - (AK_TARIEF_1 - 1)) on
\* [AK_TARIEF_1, AK_TARIEF_2), so AK_KORTING_1 + AK_SCHIJF_2_PERC at
\* AK_TARIEF_1; AK_KORTING_2 + AK_SCHIJF_3_PERC * (income - AK_TARIEF_2) on
\* [AK_TARIEF_2, AK_TARIEF_3), so AK_KORTING_2 at AK_TARIEF_2;
\* AK_KORTING_3 - AK_SCHIJF_4_PERC * (income - AK_TARIEF_3) on
\* [AK_TARIEF_3, AK_TARIEF_4), so AK_KORTING_3 at AK_TARIEF_3.
C8_ArbeidskortingTakken ==
    functie = "arbeidskorting" =>
        /\ (inkomen < Eenheden(AK_TARIEF_1)
                => uitkomst = Times(AK_SCHIJF_1_PERC, inkomen))
        /\ (inkomen >= Eenheden(AK_TARIEF_1) /\ inkomen < Eenheden(AK_TARIEF_2)
                => uitkomst = Plus(Bedrag(AK_KORTING_1),
                                   Times(AK_SCHIJF_2_PERC,
                                         inkomen - Eenheden(AK_TARIEF_1 - 1))))
        /\ (inkomen = Eenheden(AK_TARIEF_1)
                => uitkomst = <<AK_KORTING_1, AK_SCHIJF_2_PERC * Denom>>)
        /\ (inkomen >= Eenheden(AK_TARIEF_2) /\ inkomen < Eenheden(AK_TARIEF_3)
                => uitkomst = Plus(Bedrag(AK_KORTING_2),
                                   Times(AK_SCHIJF_3_PERC,
                                         inkomen - Eenheden(AK_TARIEF_2))))
        /\ (inkomen = Eenheden(AK_TARIEF_2) => uitkomst = Bedrag(AK_KORTING_2))
        /\ (inkomen >= Eenheden(AK_TARIEF_3) /\ inkomen < Eenheden(AK_TARIEF_4)
                => uitkomst = Minus(Bedrag(AK_KORTING_3),
                                    Times(AK_SCHIJF_4_PERC,
                                          inkomen - Eenheden(AK_TARIEF_3))))
        /\ (inkomen = Eenheden(AK_TARIEF_3) => uitkomst = Bedrag(AK_KORTING_3))

\* C8 witness: arbeidskorting(AK_TARIEF_2) has returned AK_KORTING_2 exactly.
C8_Witness ==
    /\ functie = "arbeidskorting"
    /\ inkomen = Eenheden(AK_TARIEF_2)
    /\ uitkomst = Bedrag(AK_KORTING_2)

\* a whole number of currency units
HeelInkomen == inkomen % Denom = 0

\* C9 (as claimed): for every whole income >= 0 algemene_heffingskorting
\* lies in [0, AH_KORTING]; in particular it is not negative at
\* AH_TARIEF_2 - 1.
C9_AlgemeneHeffingskortingBereik ==
    (functie = "algemene_heffingskorting" /\ inkomen >= 0 /\ HeelInkomen) =>
        /\ ~Less(uitkomst, Zero)
        /\ Leq(uitkomst, Bedrag(AH_KORTING))

\* C10: for every whole income >= 0, 0 <= marginale_belasting < 1, so
\* belasting is non-decreasing and netto strictly increasing along unit
\* steps; belasting(0) = 0, 0 <= belasting(income) <= income and
\* netto(income) >= 0.
C10_MarginaalTussen0En1 ==
    (inkomen >= 0 /\ HeelInkomen) =>
        /\ (functie = "marginale_belasting" =>
                /\ ~Less(uitkomst, Zero)
                /\ Less(uitkomst, Bedrag(1)))
        /\ (functie = "belasting" =>
                /\ ~Less(uitkomst, Zero)
                /\ Leq(uitkomst, VanInkomen(inkomen))
                /\ Leq(uitkomst, belasting(inkomen + Eenheden(1)))
                /\ (inkomen = 0 => uitkomst = Zero))
        /\ (functie = "netto" =>
                /\ ~Less(uitkomst, Zero)
                /\ Less(uitkomst, netto(inkomen + Eenheden(1)))
                /\ (inkomen = 0 => uitkomst = Zero))

\* C10 witness: marginale_belasting(BOX1_TARIEF - 1) has returned
\* 0.3829: over this step the second bracket starts and the (negative)
\* algemene heffingskorting of -0.0515 is replaced by 0.
C10_Witness ==
    /\ functie = "marginale_belasting"
    /\ inkomen = Eenheden(BOX1_TARIEF - 1)
    /\ uitkomst = <<0, 38290 * Denom>>
====
\* C4 (as claimed): a call of any function with a negative income ends in
\* an error and never returns a number.
C4_NegatiefGeweigerd ==
    (inkomen < 0 /\ functie # "geen") => afloop = "fout"

\* the two branches of box1_tarief, written out
Box1_Verwacht(x) ==
    IF x <= Eenheden(BOX1_TARIEF)
    THEN Times(BOX1_SCHIJF_1_PERC, x)
    ELSE Plus(Times(BOX1_SCHIJF_1_PERC, Eenheden(BOX1_TARIEF)),
              Times(BOX1_SCHIJF_2_PERC, x - Eenheden(BOX1_TARIEF)))

\* C5: for every income >= 0 box1_tarief is
\* min(income, BOX1_TARIEF) * BOX1_SCHIJF_1_PERC
\*   + max(income - BOX1_TARIEF, 0) * BOX1_SCHIJF_2_PERC;
\* a unit step of income raises it by at least BOX1_SCHIJF_1_PERC and at
\* most BOX1_SCHIJF_2_PERC (non-decreasing, no jump at the threshold), and
\* box1_tarief(BOX1_TARIEF) = BOX1_TARIEF * BOX1_SCHIJF_1_PERC.
C5_Box1Tarief ==
    (functie = "box1_tarief" /\ inkomen >= 0) =>
        /\ uitkomst = Box1_Verwacht(inkomen)
        /\ LET groei == Minus(box1_tarief(inkomen + Eenheden(1)), uitkomst)
           IN  /\ Leq(Times(BOX1_SCHIJF_1_PERC, Eenheden(1)), groei)
               /\ Leq(groei, Times(BOX1_SCHIJF_2_PERC, Eenheden(1)))
        /\ (inkomen >= 1 => Leq(box1_tarief(inkomen - 1), uitkomst))
        /\ (inkomen = Eenheden(BOX1_TARIEF)
                => uitkomst = Times(BOX1_SCHIJF_1_PERC, Eenheden(BOX1_TARIEF)))

\* C5 witness: box1_tarief has returned for the income half a unit below the
\* threshold, whose unit step crosses it: the growth over that step lies
\* strictly between the two rates.
C5_Witness ==
    /\ functie = "box1_tarief"
    /\ inkomen > Eenheden(BOX1_TARIEF - 1)
    /\ inkomen < Eenheden(BOX1_TARIEF)
    /\ LET groei == Minus(box1_tarief(inkomen + Eenheden(1)), uitkomst)
       IN  /\ Less(Times(BOX1_SCHIJF_1_PERC, Eenheden(1)), groei)
           /\ Less(groei, Times(BOX1_SCHIJF_2_PERC, Eenheden(1)))

\* the forward difference of belasting over the unit step starting at x
Stap1(x) == Minus(belasting(x + Eenheden(1)), belasting(x))

\* C6 (as claimed): marginale_belasting(income) is
\* belasting(income + 1) - belasting(income) for every income >= 0, and the
\* marginal rate of the step from AH_TARIEF_1 - 1 to AH_TARIEF_1 differs
\* from that of the unit step before it and from that of the unit step
\* after it (a spike).
C6_MarginaleSpike ==
    (functie = "marginale_belasting" /\ inkomen >= 0) =>
        /\ uitkomst = Stap1(inkomen)
        /\ (inkomen = Eenheden(AH_TARIEF_1 - 1)
                => /\ uitkomst # Stap1(Eenheden(AH_TARIEF_1 - 2))
                   /\ uitkomst # Stap1(Eenheden(AH_TARIEF_1)))

\* C6 (amended): marginale_belasting(income) is
\* belasting(income + 1) - belasting(income) for every income >= 0; the
\* marginal rate of the step from AH_TARIEF_1 - 1 to AH_TARIEF_1 is higher
\* by AH_PERC than that of the unit step before it and equal to that of the
\* unit step after it: a step up, not a spike.
C6_MarginaleTrede ==
    (functie = "marginale_belasting" /\ inkomen >= 0) =>
        /\ uitkomst = Stap1(inkomen)
        /\ (inkomen = Eenheden(AH_TARIEF_1 - 1)
                => /\ uitkomst # Stap1(Eenheden(AH_TARIEF_1 - 2))
                   /\ uitkomst = Plus(Stap1(Eenheden(AH_TARIEF_1 - 2)),
                                      Times(AH_PERC, Eenheden(1)))
                   /\ uitkomst = Stap1(Eenheden(AH_TARIEF_1)))

\* C6 witness: marginale_belasting(AH_TARIEF_1 - 1) has returned
\* 0.3693 + 0.06095 - 0.29861 = 0.13164.
C6_Witness ==
    /\ functie = "marginale_belasting"
    /\ inkomen = Eenheden(AH_TARIEF_1 - 1)
    /\ uitkomst = <<0, (BOX1_SCHIJF_1_PERC + AH_PERC - AK_SCHIJF_2_PERC) * Denom>>

\* C7: for every income at or above both AH_TARIEF_2 and AK_TARIEF_4 (such
\* as 150000) algemene_heffingskorting and arbeidskorting are 0 and belasting
\* is exactly box1_tarief.
C7_BovenDeKortingen ==
    (inkomen >= Eenheden(AH_TARIEF_2) /\ inkomen >= Eenheden(AK_TARIEF_4)) =>
        /\ (functie = "algemene_heffingskorting" => uitkomst = Zero)
        /\ (functie = "arbeidskorting" => uitkomst = Zero)
        /\ (functie = "belasting" =>
                /\ uitkomst = Box1_Verwacht(inkomen)
                /\ uitkomst = box1_tarief(inkomen))

\* C7 witness: belasting(150000) has returned box1_tarief(150000) =
\* 73031 * 0.3693 + 76969 * 0.4950 = 65070.0033.
C7_Witness ==
    /\ functie = "belasting"
    /\ inkomen = Eenheden(150000)
    /\ uitkomst = <<65070, 330 * Denom>>

\* C8: arbeidskorting has the "-1" offset in its second branch only:
\* AK_SCHIJF_1_PERC * income below AK_TARIEF_1;
\* AK_KORTING_1 + AK_SCHIJF_2_PERC * (income - (AK_TARIEF_1 - 1)) on
\* [AK_TARIEF_1, AK_TARIEF_2), so AK_KORTING_1 + AK_SCHIJF_2_PERC at
\* AK_TARIEF_1; AK_KORTING_2 + AK_SCHIJF_3_PERC * (income - AK_TARIEF_2) on
\* [AK_TARIEF_2, AK_TARIEF_3), so AK_KORTING_2 at AK_TARIEF_2;
\* AK_KORTING_3 - AK_SCHIJF_4_PERC * (income - AK_TARIEF_3) on
\* [AK_TARIEF_3, AK_TARIEF_4), so AK_KORTING_3 at AK_TARIEF_3.
C8_ArbeidskortingTakken ==
    functie = "arbeidskorting" =>
        /\ (inkomen < Eenheden(AK_TARIEF_1)
                => uitkomst = Times(AK_SCHIJF_1_PERC, inkomen))
        /\ (inkomen >= Eenheden(AK_TARIEF_1) /\ inkomen < Eenheden(AK_TARIEF_2)
                => uitkomst = Plus(Bedrag(AK_KORTING_1),
                                   Times(AK_SCHIJF_2_PERC,
                                         inkomen - Eenheden(AK_TARIEF_1 - 1))))
        /\ (inkomen = Eenheden(AK_TARIEF_1)
                => uitkomst = <<AK_KORTING_1, AK_SCHIJF_2_PERC * Denom>>)
        /\ (inkomen >= Eenheden(AK_TARIEF_2) /\ inkomen < Eenheden(AK_TARIEF_3)
                => uitkomst = Plus(Bedrag(AK_KORTING_2),
                                   Times(AK_SCHIJF_3_PERC,
                                         inkomen - Eenheden(AK_TARIEF_2))))
        /\ (inkomen = Eenheden(AK_TARIEF_2) => uitkomst = Bedrag(AK_KORTING_2))
        /\ (inkomen >= Eenheden(AK_TARIEF_3) /\ inkomen < Eenheden(AK_TARIEF_4)
                => uitkomst = Minus(Bedrag(AK_KORTING_3),
                                    Times(AK_SCHIJF_4_PERC,
                                          inkomen - Eenheden(AK_TARIEF_3))))
        /\ (inkomen = Eenheden(AK_TARIEF_3) => uitkomst = Bedrag(AK_KORTING_3))

\* C8 witness: arbeidskorting(AK_TARIEF_2) has returned AK_KORTING_2 exactly.
C8_Witness ==
    /\ functie = "arbeidskorting"
    /\ inkomen = Eenheden(AK_TARIEF_2)
    /\ uitkomst = Bedrag(AK_KORTING_2)

\* a whole number of currency units
HeelInkomen == inkomen % Denom = 0

\* C9 (as claimed): for every whole income >= 0 algemene_heffingskorting
\* lies in [0, AH_KORTING]; in particular it is not negative at
\* AH_TARIEF_2 - 1.
C9_AlgemeneHeffingskortingBereik ==
    (functie = "algemene_heffingskorting" /\ inkomen >= 0 /\ HeelInkomen) =>
        /\ ~Less(uitkomst, Zero)
        /\ Leq(uitkomst, Bedrag(AH_KORTING))

\* C10: for every whole income >= 0, 0 <= marginale_belasting < 1, so
\* belasting is non-decreasing and netto strictly increasing along unit
\* steps; belasting(0) = 0, 0 <= belasting(income) <= income and
\* netto(income) >= 0.
C10_MarginaalTussen0En1 ==
    (inkomen >= 0 /\ HeelInkomen) =>
        /\ (functie = "marginale_belasting" =>
                /\ ~Less(uitkomst, Zero)
                /\ Less(uitkomst, Bedrag(1)))
        /\ (functie = "belasting" =>
                /\ ~Less(uitkomst, Zero)
                /\ Leq(uitkomst, VanInkomen(inkomen))
                /\ Leq(uitkomst, belasting(inkomen + Eenheden(1)))
                /\ (inkomen = 0 => uitkomst = Zero))
        /\ (functie = "netto" =>
                /\ ~Less(uitkomst, Zero)
                /\ Less(uitkomst, netto(inkomen + Eenheden(1)))
                /\ (inkomen = 0 => uitkomst = Zero))

\* C10 witness: marginale_belasting(BOX1_TARIEF - 1) has returned
\* 0.3829: over this step the second bracket starts and the (negative)
\* algemene heffingskorting of -0.0515 is replaced by 0.
C10_Witness ==
    /\ functie = "marginale_belasting"
    /\ inkomen = Eenheden(BOX1_TARIEF - 1)
    /\ uitkomst = <<0, 38290 * Denom>>
======= *)

\* box1_tarief - algemene_heffingskorting - arbeidskorting, before the floor
Ongeklemd(x) ==
    Minus(Minus(box1_tarief(x), algemene_heffingskorting(x)), arbeidskorting(x))

\* C1: for every income >= 0 belasting returns
\* max(box1_tarief - algemene_heffingskorting - arbeidskorting, 0): the result
\* is never negative and is exactly 0 wherever the difference is negative.
C1_BelastingVloer ==
    (functie = "belasting" /\ inkomen >= 0) =>
        /\ uitkomst = (IF Less(Ongeklemd(inkomen), Zero)
                       THEN Zero ELSE Ongeklemd(inkomen))
        /\ ~Less(uitkomst, Zero)
        /\ (Less(Ongeklemd(inkomen), Zero) => uitkomst = Zero)

\* C1 witness: belasting(10000) has returned 0 although the difference
\* 3693 - 3070 - 823.1 = -200.1 is negative.
C1_Witness ==
    /\ functie = "belasting"
    /\ inkomen = Eenheden(10000)
    /\ Ongeklemd(inkomen) = Norm(-200, 0 - (FracScale \div 10))
    /\ uitkomst = Zero

\* C2 (as claimed): arbeidskorting is non-negative for every income >= 0,
\* whole or not, and exactly 0 for every income >= AK_TARIEF_4.
C2_ArbeidskortingNietNegatief ==
    (functie = "arbeidskorting" /\ inkomen >= 0) =>
        /\ ~Less(uitkomst, Zero)
        /\ (inkomen >= Eenheden(AK_TARIEF_4) => uitkomst = Zero)

\* the phase-out branch of algemene_heffingskorting, written out
AH_Afbouw(x) ==
    Minus(Bedrag(AH_KORTING), Times(AH_PERC, x - Eenheden(AH_TARIEF_1 - 1)))

\* C3: algemene_heffingskorting is AH_KORTING below AH_TARIEF_1,
\* AH_KORTING - AH_PERC * (income - (AH_TARIEF_1 - 1)) on
\* [AH_TARIEF_1, AH_TARIEF_2), so AH_KORTING - AH_PERC (not AH_KORTING) at
\* AH_TARIEF_1, 0 from AH_TARIEF_2 on, and non-increasing on
\* [AH_TARIEF_1, AH_TARIEF_2).
C3_AlgemeneHeffingskortingRegios ==
    functie = "algemene_heffingskorting" =>
        /\ (inkomen < Eenheden(AH_TARIEF_1) => uitkomst = Bedrag(AH_KORTING))
        /\ (inkomen >= Eenheden(AH_TARIEF_1) /\ inkomen < Eenheden(AH_TARIEF_2)
                => uitkomst = AH_Afbouw(inkomen))
        /\ (inkomen = Eenheden(AH_TARIEF_1)
                => /\ uitkomst = Minus(Bedrag(AH_KORTING),
                                       Times(AH_PERC, Eenheden(1)))
                   /\ uitkomst # Bedrag(AH_KORTING))
        /\ (inkomen >= Eenheden(AH_TARIEF_2) => uitkomst = Zero)
        /\ \A stap \in {1, Eenheden(1)} :
              (inkomen - stap >= Eenheden(AH_TARIEF_1)
                  /\ inkomen < Eenheden(AH_TARIEF_2))
                => Leq(uitkomst, algemene_heffingskorting(inkomen - stap))

\* C3 witness: algemene_heffingskorting(AH_TARIEF_1) has returned
\* 3070 - 0.06095 = 3069.93905.
C3_Witness ==
    /\ functie = "algemene_heffingskorting"
    /\ inkomen = Eenheden(AH_TARIEF_1)
    /\ uitkomst = <<AH_KORTING - 1, (RateScale - AH_PERC) * Denom>>

\* C4 (as claimed): a call of any function with a negative income ends in
\* an error and never returns a number.
C4_NegatiefGeweigerd ==
    (inkomen < 0 /\ functie # "geen") => afloop = "fout"

\* the two branches of box1_tarief, written out
Box1_Verwacht(x) ==
    IF x <= Eenheden(BOX1_TARIEF)
    THEN Times(BOX1_SCHIJF_1_PERC, x)
    ELSE Plus(Times(BOX1_SCHIJF_1_PERC, Eenheden(BOX1_TARIEF)),
              Times(BOX1_SCHIJF_2_PERC, x - Eenheden(BOX1_TARIEF)))

\* C5: for every income >= 0 box1_tarief is
\* min(income, BOX1_TARIEF) * BOX1_SCHIJF_1_PERC
\*   + max(income - BOX1_TARIEF, 0) * BOX1_SCHIJF_2_PERC;
\* a unit step of income raises it by at least BOX1_SCHIJF_1_PERC and at
\* most BOX1_SCHIJF_2_PERC (non-decreasing, no jump at the threshold), and
\* box1_tarief(BOX1_TARIEF) = BOX1_TARIEF * BOX1_SCHIJF_1_PERC.
C5_Box1Tarief ==
    (functie = "box1_tarief" /\ inkomen >= 0) =>
        /\ uitkomst = Box1_Verwacht(inkomen)
        /\ LET groei == Minus(box1_tarief(inkomen + Eenheden(1)), uitkomst)
           IN  /\ Leq(Times(BOX1_SCHIJF_1_PERC, Eenheden(1)), groei)
               /\ Leq(groei, Times(BOX1_SCHIJF_2_PERC, Eenheden(1)))
        /\ (inkomen >= 1 => Leq(box1_tarief(inkomen - 1), uitkomst))
        /\ (inkomen = Eenheden(BOX1_TARIEF)
                => uitkomst = Times(BOX1_SCHIJF_1_PERC, Eenheden(BOX1_TARIEF)))

\* C5 witness: box1_tarief has returned for the income half a unit below the
\* threshold, whose unit step crosses it: the growth over that step lies
\* strictly between the two rates.
C5_Witness ==
    /\ functie = "box1_tarief"
    /\ inkomen > Eenheden(BOX1_TARIEF - 1)
    /\ inkomen < Eenheden(BOX1_TARIEF)
    /\ LET groei == Minus(box1_tarief(inkomen + Eenheden(1)), uitkomst)
       IN  /\ Less(Times(BOX1_SCHIJF_1_PERC, Eenheden(1)), groei)
           /\ Less(groei, Times(BOX1_SCHIJF_2_PERC, Eenheden(1)))

\* the forward difference of belasting over the unit step starting at x
Stap1(x) == Minus(belasting(x + Eenheden(1)), belasting(x))

\* C6 (as claimed): marginale_belasting(income) is
\* belasting(income + 1) - belasting(income) for every income >= 0, and the
\* marginal rate of the step from AH_TARIEF_1 - 1 to AH_TARIEF_1 differs
\* from that of the unit step before it and from that of the unit step
\* after it (a spike).
C6_MarginaleSpike ==
    (functie = "marginale_belasting" /\ inkomen >= 0) =>
        /\ uitkomst = Stap1(inkomen)
        /\ (inkomen = Eenheden(AH_TARIEF_1 - 1)
                => /\ uitkomst # Stap1(Eenheden(AH_TARIEF_1 - 2))
                   /\ uitkomst # Stap1(Eenheden(AH_TARIEF_1)))

\* C6 (amended): marginale_belasting(income) is
\* belasting(income + 1) - belasting(income) for every income >= 0; the
\* marginal rate of the step from AH_TARIEF_1 - 1 to AH_TARIEF_1 is higher
\* by AH_PERC than that of the unit step before it and equal to that of the
\* unit step after it: a step up, not a spike.
C6_MarginaleTrede ==
    (functie = "marginale_belasting" /\ inkomen >= 0) =>
        /\ uitkomst = Stap1(inkomen)
        /\ (inkomen = Eenheden(AH_TARIEF_1 - 1)
                => /\ uitkomst # Stap1(Eenheden(AH_TARIEF_1 - 2))
                   /\ uitkomst = Plus(Stap1(Eenheden(AH_TARIEF_1 - 2)),
                                      Times(AH_PERC, Eenheden(1)))
                   /\ uitkomst = Stap1(Eenheden(AH_TARIEF_1)))

\* C6 witness: marginale_belasting(AH_TARIEF_1 - 1) has returned
\* 0.3693 + 0.06095 - 0.29861 = 0.13164.
C6_Witness ==
    /\ functie = "marginale_belasting"
    /\ inkomen = Eenheden(AH_TARIEF_1 - 1)
    /\ uitkomst = <<0, (BOX1_SCHIJF_1_PERC + AH_PERC - AK_SCHIJF_2_PERC) * Denom>>

\* C7: for every income at or above both AH_TARIEF_2 and AK_TARIEF_4 (such
\* as 150000) algemene_heffingskorting and arbeidskorting are 0 and belasting
\* is exactly box1_tarief.
C7_BovenDeKortingen ==
    (inkomen >= Eenheden(AH_TARIEF_2) /\ inkomen >= Eenheden(AK_TARIEF_4)) =>
        /\ (functie = "algemene_heffingskorting" => uitkomst = Zero)
        /\ (functie = "arbeidskorting" => uitkomst = Zero)
        /\ (functie = "belasting" =>
                /\ uitkomst = Box1_Verwacht(inkomen)
                /\ uitkomst = box1_tarief(inkomen))

\* C7 witness: belasting(150000) has returned box1_tarief(150000) =
\* 73031 * 0.3693 + 76969 * 0.4950 = 65070.0033.
C7_Witness ==
    /\ functie = "belasting"
    /\ inkomen = Eenheden(150000)
    /\ uitkomst = <<65070, 330 * Denom>>

\* C8: arbeidskorting has the "-1" offset in its second branch only:
\* AK_SCHIJF_1_PERC * income below AK_TARIEF_1;
\* AK_KORTING_1 + AK_SCHIJF_2_PERC * (income - (AK_TARIEF_1 - 1)) on
\* [AK_TARIEF_1, AK_TARIEF_2), so AK_KORTING_1 + AK_SCHIJF_2_PERC at
\* AK_TARIEF_1; AK_KORTING_2 + AK_SCHIJF_3_PERC * (income - AK_TARIEF_2) on
\* [AK_TARIEF_2, AK_TARIEF_3), so AK_KORTING_2 at AK_TARIEF_2;
\* AK_KORTING_3 - AK_SCHIJF_4_PERC * (income - AK_TARIEF_3) on
\* [AK_TARIEF_3, AK_TARIEF_4), so AK_KORTING_3 at AK_TARIEF_3.
C8_ArbeidskortingTakken ==
    functie = "arbeidskorting" =>
        /\ (inkomen < Eenheden(AK_TARIEF_1)
                => uitkomst = Times(AK_SCHIJF_1_PERC, inkomen))
        /\ (inkomen >= Eenheden(AK_TARIEF_1) /\ inkomen < Eenheden(AK_TARIEF_2)
                => uitkomst = Plus(Bedrag(AK_KORTING_1),
                                   Times(AK_SCHIJF_2_PERC,
                                         inkomen - Eenheden(AK_TARIEF_1 - 1))))
        /\ (inkomen = Eenheden(AK_TARIEF_1)
                => uitkomst = <<AK_KORTING_1, AK_SCHIJF_2_PERC * Denom>>)
        /\ (inkomen >= Eenheden(AK_TARIEF_2) /\ inkomen < Eenheden(AK_TARIEF_3)
                => uitkomst = Plus(Bedrag(AK_KORTING_2),
                                   Times(AK_SCHIJF_3_PERC,
                                         inkomen - Eenheden(AK_TARIEF_2))))
        /\ (inkomen = Eenheden(AK_TARIEF_2) => uitkomst = Bedrag(AK_KORTING_2))
        /\ (inkomen >= Eenheden(AK_TARIEF_3) /\ inkomen < Eenheden(AK_TARIEF_4)
                => uitkomst = Minus(Bedrag(AK_KORTING_3),
                                    Times(AK_SCHIJF_4_PERC,
                                          inkomen - Eenheden(AK_TARIEF_3))))
        /\ (inkomen = Eenheden(AK_TARIEF_3) => uitkomst = Bedrag(AK_KORTING_3))

\* C8 witness: arbeidskorting(AK_TARIEF_2) has returned AK_KORTING_2 exactly.
C8_Witness ==
    /\ functie = "arbeidskorting"
    /\ inkomen = Eenheden(AK_TARIEF_2)
    /\ uitkomst = Bedrag(AK_KORTING_2)

\* a whole number of currency units
HeelInkomen == inkomen % Denom = 0

\* C9 (as claimed): for every whole income >= 0 algemene_heffingskorting
\* lies in [0, AH_KORTING]; in particular it is not negative at
\* AH_TARIEF_2 - 1.
C9_AlgemeneHeffingskortingBereik ==
    (functie = "algemene_heffingskorting" /\ inkomen >= 0 /\ HeelInkomen) =>
        /\ ~Less(uitkomst, Zero)
        /\ Leq(uitkomst, Bedrag(AH_KORTING))

\* C10: for every whole income >= 0, 0 <= marginale_belasting < 1, so
\* belasting is non-decreasing and netto strictly increasing along unit
\* steps; belasting(0) = 0, 0 <= belasting(income) <= income and
\* netto(income) >= 0.
C10_MarginaalTussen0En1 ==
    (inkomen >= 0 /\ HeelInkomen) =>
        /\ (functie = "marginale_belasting" =>
                /\ ~Less(uitkomst, Zero)
                /\ Less(uitkomst, Bedrag(1)))
        /\ (functie = "belasting" =>
                /\ ~Less(uitkomst, Zero)
                /\ Leq(uitkomst, VanInkomen(inkomen))
                /\ Leq(uitkomst, belasting(inkomen + Eenheden(1)))
                /\ (inkomen = 0 => uitkomst = Zero))
        /\ (functie = "netto" =>
                /\ ~Less(uitkomst, Zero)
                /\ Less(uitkomst, netto(inkomen + Eenheden(1)))
                /\ (inkomen = 0 => uitkomst = Zero))

\* C10 witness: marginale_belasting(BOX1_TARIEF - 1) has returned
\* 0.3829: over this step the second bracket starts and the (negative)
\* algemene heffingskorting of -0.0515 is replaced by 0.
C10_Witness ==
    /\ functie = "marginale_belasting"
    /\ inkomen = Eenheden(BOX1_TARIEF - 1)
    /\ uitkomst = <<0, 38290 * Denom>>
====
